---- MODULE Spec2Model ----
(***************************************************************************)
(* Model of DatabaseService (the data layer of the multiagent platform):   *)
(* the IndexedDB-backed LRU cache, init(), the remote/cache/mock fallback  *)
(* chains of storeFrameworkData and getFrameworkData, healthCheck(), the   *)
(* text and vector searches with their fallbacks, the fallback embedding,  *)
(* the query history of cacheUserQuery, and the interleavings of two       *)
(* cacheSet or cacheUserQuery calls at their awaits, of the callers that   *)
(* reach init() together and of cacheGet with cacheSet; and, beside it,    *)
(* the compression codec and simpleHash on their own, the key encryption   *)
(* and the code sanitizer of SecurityService, the rate limiter, the        *)
(* scraping status and scrapeAndStoreFrameworkData of ScraperService, the  *)
(* vector-store function and the persisted app store.                      *)
(*                                                                         *)
(* Strings whose structure the code inspects (framework tags, record ids,  *)
(* cache keys, contents) are sequences of one-character strings.           *)
(* Sizes are counted in units of 100 MiB, so MAX_CACHE_SIZE               *)
(* (500 * 1024 * 1024 bytes) is 5 units, and the serialized size of a      *)
(* value is the number of 100 MiB blocks of its content.                   *)
(* A handler's result is a sequence: << >> is null / void / the empty      *)
(* array, <<v>> a single value, and a list is the list.                    *)
(***************************************************************************)
EXTENDS Integers, Sequences, FiniteSets, TLC

VARIABLES
    cache,          \* IndexedDB object store 'cache': key -> CacheEntry (persists across sessions)
    userQueries,    \* IndexedDB object store 'userQueries': query -> record (persists too)
    calls,          \* the calls in flight, where handlers are followed await by await
    txq,            \* per object store, the calls whose requests IndexedDB has queued
    db,             \* this.db: 0 is null, n > 0 is the handle of the n-th successful openDB
    supabase,       \* this.supabase is non-null
    cacheSize,      \* this.cacheSize
    initialized,    \* this.initialized
    opens,          \* number of successful openDB calls so far
    sessions,       \* number of page sessions started so far
    creds,          \* VITE_SUPABASE_URL and VITE_SUPABASE_ANON_KEY are both set
    storeAvailable, \* openDB succeeds in this session
    now,            \* Date.now()
    op,             \* the handler that completed last
    inits,          \* how many init() calls have completed in a row, counted (up to 2)
                    \* from one that found the service not initialized; 0 otherwise
    arg,            \* its arguments
    ret,            \* its result
    thrown,         \* the error it raised to its caller, or "none"
    evicted,        \* the entries its ensureCacheSpace calls deleted, in deletion order
    sent,           \* the batches it upserted into the remote table, in request order
    lastRequestTime,\* ScraperService.lastRequestTime
    released,       \* the times at which rateLimitDelay() calls returned, in order
    vectorStore,    \* the Map of the vector-store function, in insertion order
    appState,       \* the state of useAppStore
    storage         \* the item 'multiagent-app-storage' of localStorage: <<item>>, or
                    \* << >> when it was never written

svc == <<db, supabase, cacheSize, initialized, opens>>
env == <<sessions, creds, storeAvailable, now>>
hist == <<op, inits, arg, ret, thrown, evicted, sent>>
conc == <<calls, txq>>
scraper == <<lastRequestTime, released>>
serverless == <<vectorStore>>
app == <<appState, storage>>
rest == <<scraper, serverless, app>>
vars == <<cache, userQueries, svc, env, hist, conc, rest>>

----------------------------------------------------------------------------
(* Bounds of the model *)

MaxTime == 3
MaxAccess == 2
MaxSessions == 2
MaxLen == 2
MaxLimit == 3
MaxRecords == 3

(* Program constants *)

\* private readonly MAX_CACHE_SIZE = 500 * 1024 * 1024, in units of 100 MiB
MAX_CACHE_SIZE == 5

\* const batchSize = 50, scaled down to 2 so that a call of MaxRecords records
\* spans a full batch and a shorter last one
batchSize == 2

----------------------------------------------------------------------------
(* Strings *)

\* code unit of a character, as far as the order of the characters used goes
charCodeAt(c) ==
    CASE c = " " -> 32
      [] c = "#" -> 35
      [] c = "-" -> 45
      [] c = "." -> 46
      [] c = "/" -> 47
      [] c = "1" -> 49
      [] c = "2" -> 50
      [] c = "3" -> 51
      [] c = "4" -> 52
      [] c = "H" -> 72
      [] c = "X" -> 88
      [] c = "Y" -> 89
      [] c = "_" -> 95
      [] c = "a" -> 97
      [] c = "b" -> 98
      [] c = "c" -> 99
      [] c = "d" -> 100
      [] c = "e" -> 101
      [] c = "f" -> 102
      [] c = "g" -> 103
      [] c = "h" -> 104
      [] c = "i" -> 105
      [] c = "k" -> 107
      [] c = "m" -> 109
      [] c = "n" -> 110
      [] c = "o" -> 111
      [] c = "r" -> 114
      [] c = "w" -> 119
      [] c = "x" -> 120
      [] c = "y" -> 121
      [] OTHER -> 122

\* s < t in the order IndexedDB keeps string keys in (code units, left to right)
RECURSIVE keyLess(_, _)
keyLess(s, t) ==
    IF t = << >> THEN FALSE
    ELSE IF s = << >> THEN TRUE
    ELSE IF Head(s) = Head(t) \/ charCodeAt(Head(s)) = charCodeAt(Head(t))
         THEN keyLess(Tail(s), Tail(t))
         ELSE charCodeAt(Head(s)) < charCodeAt(Head(t))

startsWith(s, p) == Len(p) <= Len(s) /\ SubSeq(s, 1, Len(p)) = p

\* String.prototype.toLowerCase, on the letters used
toLowerCase(s) ==
    [i \in 1..Len(s) |->
        CASE s[i] = "H" -> "h"
          [] s[i] = "T" -> "t"
          [] s[i] = "X" -> "x"
          [] s[i] = "Y" -> "y"
          [] OTHER -> s[i]]

\* String.prototype.includes
includes(s, sub) ==
    \E i \in 0..(Len(s) - Len(sub)) : SubSeq(s, i + 1, i + Len(sub)) = sub

RECURSIVE SumSeq(_)
SumSeq(s) == IF s = << >> THEN 0 ELSE Head(s) + SumSeq(Tail(s))

RECURSIVE SumOver(_, _)
SumOver(f, S) ==
    IF S = {} THEN 0
    ELSE LET x == CHOOSE y \in S : TRUE IN f[x] + SumOver(f, S \ {x})

----------------------------------------------------------------------------
(* Data: FrameworkData records and cache keys *)

Tags == { <<"a">>, <<"a", "_", "b">> }

\* interface FrameworkData (lastUpdated and contentType play no part here); the url
\* is that of the framework's repository followed by the id
FrameworkData(id, framework, content, stars) ==
    [id |-> id, framework |-> framework, content |-> content,
     url |-> <<"h", "/">> \o framework \o <<"/">> \o id, stars |-> stars,
     compressedSize |-> 0]

\* the records handed to the service: two of framework "a", two of framework "a_b";
\* the second and the third derive the same cache key, framework_a_b_1
Records ==
    { FrameworkData(<<"1">>, <<"a">>, <<"x", "x">>, 500),
      FrameworkData(<<"b", "_", "1">>, <<"a">>, <<"y", "y", "y">>, 1000),
      FrameworkData(<<"1">>, <<"a", "_", "b">>, <<"x", "x">>, 1000),
      FrameworkData(<<"b", "_", "1">>, <<"a", "_", "b">>, <<"y", "y", "y">>, 500) }

\* values of direct cacheSet calls: one of 2 units, one of 3
PlainValues ==
    { FrameworkData(<<"1">>, <<"a">>, <<"x", "x">>, 500),
      FrameworkData(<<"b", "_", "1">>, <<"a">>, <<"y", "y", "y">>, 1000) }

\* keys of direct cacheSet / cacheGet calls
PlainKeys == { <<"k", "1">>, <<"k", "2">>, <<"k", "3">> }

\* `framework_${item.framework}_${item.id}`
frameworkKey(framework, id) ==
    <<"f", "r", "a", "m", "e", "w", "o", "r", "k", "_">> \o framework \o <<"_">> \o id

\* `framework_${framework}_`
frameworkPrefix(framework) ==
    <<"f", "r", "a", "m", "e", "w", "o", "r", "k", "_">> \o framework \o <<"_">>

\* interface VectorEmbedding (framework, content_id and metadata play no part here)
VectorEmbedding(id, embedding) == [id |-> id, embedding |-> embedding]

\* the embeddings handed to the service: one of 2 units, two of 3
Embeddings ==
    { VectorEmbedding(<<"1">>, <<1, 2>>),
      VectorEmbedding(<<"2">>, <<1, 2, 3>>),
      VectorEmbedding(<<"3">>, <<3, 2, 1>>) }

\* `embedding_${embedding.id}`
embeddingKey(id) == <<"e", "m", "b", "e", "d", "d", "i", "n", "g", "_">> \o id

\* new Blob([JSON.stringify(value)]).size, in units of 100 MiB
blobSize(value) ==
    IF "content" \in DOMAIN value THEN Len(value.content) ELSE Len(value.embedding)

----------------------------------------------------------------------------
(* The service as a value: the fields of DatabaseService, the cache store,  *)
(* and what the running handler has returned, raised, evicted and sent.     *)

Cur ==
    [cache |-> cache, db |-> db, supabase |-> supabase, cacheSize |-> cacheSize,
     initialized |-> initialized, opens |-> opens, userQueries |-> userQueries,
     ret |-> << >>, thrown |-> "none", evicted |-> << >>, sent |-> << >>]

\* entries.reduce((total, entry) => total + entry.size, 0)
totalSize(c) == SumOver([k \in DOMAIN c |-> c[k].size], DOMAIN c)

\* calculateCacheSize(): the running total is rebuilt from the persisted entries
calculateCacheSize(st) ==
    IF st.db = 0 THEN st
    ELSE [st EXCEPT !.cacheSize = totalSize(st.cache)]

\* init() without its "already initialized" guard
initAgain(st) ==
    LET s1 == [st EXCEPT !.supabase = IF creds THEN TRUE ELSE @]
    IN IF ~storeAvailable
       THEN [s1 EXCEPT !.thrown = "StoreUnavailable"]
       ELSE LET s2 == [s1 EXCEPT !.db = st.opens + 1, !.opens = @ + 1]
            IN [calculateCacheSize(s2) EXCEPT !.initialized = TRUE]

\* init(): a no-op once initialized; otherwise creates the Supabase client if the
\* credentials are set, opens IndexedDB (rethrowing its failure) and recalculates
init(st) ==
    IF st.initialized THEN st
    ELSE LET s1 == [st EXCEPT !.supabase = IF creds THEN TRUE ELSE @]
         IN IF ~storeAvailable
            THEN [s1 EXCEPT !.thrown = "StoreUnavailable"]
            ELSE LET s2 == [s1 EXCEPT !.db = st.opens + 1, !.opens = @ + 1]
                 IN [calculateCacheSize(s2) EXCEPT !.initialized = TRUE]

\* if (!this.db) await this.init();
lazyInit(st) == IF st.db = 0 THEN init(st) ELSE st

\* scoreA = a.accessCount * 0.7 + (Date.now() - a.timestamp) * 0.3, times 10
score(e) == e.accessCount * 7 + (now - e.timestamp) * 3

\* entries.sort((a, b) => scoreA - scoreB) over getAll('cache'): ascending score,
\* entries of equal score staying in key order (getAll order, stable sort)
sortsBefore(c, j, k) ==
    \/ score(c[j]) < score(c[k])
    \/ score(c[j]) = score(c[k]) /\ (j = k \/ keyLess(j, k))

RECURSIVE sortedKeys(_, _)
sortedKeys(c, K) ==
    IF K = {} THEN << >>
    ELSE LET m == CHOOSE j \in K : \A k \in K : sortsBefore(c, j, k)
         IN <<m>> \o sortedKeys(c, K \ {m})

\* for (const entry of entries) { if (cacheSize - freedSpace + newSize <= MAX) break;
\*   delete(entry.key); freedSpace += entry.size }: the number of entries deleted
RECURSIVE evictCount(_, _, _, _, _)
evictCount(c, order, i, freedSpace, need) ==
    IF i > Len(order) \/ need - freedSpace <= MAX_CACHE_SIZE THEN i - 1
    ELSE evictCount(c, order, i + 1, freedSpace + c[order[i]].size, need)

\* ensureCacheSpace without the break of its loop: once room is needed every entry
\* is deleted
ensureCacheSpaceNoBreak(st, newSize) ==
    IF st.db = 0 THEN st
    ELSE IF st.cacheSize + newSize <= MAX_CACHE_SIZE THEN st
    ELSE LET order == sortedKeys(st.cache, DOMAIN st.cache)
             freedSpace == SumSeq([i \in 1..Len(order) |-> st.cache[order[i]].size])
         IN [st EXCEPT
               !.cache = << >>,
               !.cacheSize = @ - freedSpace,
               !.evicted = @ \o [i \in 1..Len(order) |->
                   [key |-> order[i],
                    timestamp |-> st.cache[order[i]].timestamp,
                    size |-> st.cache[order[i]].size,
                    accessCount |-> st.cache[order[i]].accessCount]]]

\* ensureCacheSpace(newSize)
ensureCacheSpace(st, newSize) ==
    IF st.db = 0 THEN st
    ELSE IF st.cacheSize + newSize <= MAX_CACHE_SIZE THEN st
    ELSE LET order == sortedKeys(st.cache, DOMAIN st.cache)
             n == evictCount(st.cache, order, 1, 0, st.cacheSize + newSize)
             gone == { order[i] : i \in 1..n }
             freedSpace == SumSeq([i \in 1..n |-> st.cache[order[i]].size])
         IN [st EXCEPT
               !.cache = [k \in DOMAIN st.cache \ gone |-> st.cache[k]],
               !.cacheSize = @ - freedSpace,
               !.evicted = @ \o [i \in 1..n |->
                   [key |-> order[i],
                    timestamp |-> st.cache[order[i]].timestamp,
                    size |-> st.cache[order[i]].size,
                    accessCount |-> st.cache[order[i]].accessCount]]]

\* db.put('cache', entry): upsert by key
put(c, key, entry) == [k \in DOMAIN c \cup {key} |-> IF k = key THEN entry ELSE c[k]]

\* cacheSet writing accessCount 0
cacheSetZeroCount(st, key, value) ==
    LET s1 == lazyInit(st)
        size == blobSize(value)
    IN IF s1.thrown # "none" THEN s1
       ELSE LET s2 == ensureCacheSpace(s1, size)
                entry == [value |-> value, timestamp |-> now, size |-> size,
                          accessCount |-> 0]
            IN [s2 EXCEPT !.cache = put(@, key, entry), !.cacheSize = @ + size]

\* cacheSet(key, value)
cacheSet(st, key, value) ==
    LET s1 == lazyInit(st)
        size == blobSize(value)
    IN IF s1.thrown # "none" THEN s1
       ELSE LET s2 == ensureCacheSpace(s1, size)
                entry == [value |-> value, timestamp |-> now, size |-> size,
                          accessCount |-> 1]
            IN [s2 EXCEPT !.cache = put(@, key, entry), !.cacheSize = @ + size]

\* cacheGet that returns the value of a hit without persisting the bumped entry
cacheGetNoPersist(st, key) ==
    LET s1 == lazyInit(st)
    IN IF s1.thrown # "none" THEN s1
       ELSE IF key \notin DOMAIN s1.cache THEN [s1 EXCEPT !.ret = << >>]
       ELSE [s1 EXCEPT !.ret = <<s1.cache[key].value>>]

\* cacheGet that raises on a miss
cacheGetMissRaises(st, key) ==
    LET s1 == lazyInit(st)
    IN IF s1.thrown # "none" THEN s1
       ELSE IF key \notin DOMAIN s1.cache THEN [s1 EXCEPT !.thrown = "NotFound"]
       ELSE LET entry == [s1.cache[key] EXCEPT !.timestamp = now,
                                               !.accessCount = @ + 1]
            IN [s1 EXCEPT !.cache = put(@, key, entry), !.ret = <<entry.value>>]

\* cacheGet(key)
cacheGet(st, key) ==
    LET s1 == lazyInit(st)
    IN IF s1.thrown # "none" THEN s1
       ELSE IF key \notin DOMAIN s1.cache THEN [s1 EXCEPT !.ret = << >>]
       ELSE LET entry == [s1.cache[key] EXCEPT !.timestamp = now,
                                               !.accessCount = @ + 1]
            IN [s1 EXCEPT !.cache = put(@, key, entry), !.ret = <<entry.value>>]

----------------------------------------------------------------------------
(* cacheUserQuery *)

\* "Keep only recent queries (last 1000)": the 1000 of lines 495-496, scaled down
recentQueries == 2

\* getAllFromIndex('userQueries', 'by-timestamp'): the queries by timestamp
\* ascending, records of equal timestamp in key order
RECURSIVE byTimestamp(_, _)
byTimestamp(q, K) ==
    IF K = {} THEN << >>
    ELSE LET m == CHOOSE j \in K : \A k \in K :
                     \/ q[j].timestamp < q[k].timestamp
                     \/ q[j].timestamp = q[k].timestamp /\ (j = k \/ keyLess(j, k))
         IN <<m>> \o byTimestamp(q, K \ {m})

\* allQueries.slice(0, allQueries.length - 1000): the queries to delete
oldQueries(q) ==
    LET allQueries == byTimestamp(q, DOMAIN q)
    IN IF Len(allQueries) > recentQueries
       THEN SubSeq(allQueries, 1, Len(allQueries) - recentQueries)
       ELSE << >>

\* cacheUserQuery that never deletes
cacheUserQueryNoPrune(st, query, framework) ==
    LET s1 == lazyInit(st)
        queryEntry == [query |-> query, timestamp |-> now, framework |-> framework]
    IN IF s1.thrown # "none" THEN s1
       ELSE [s1 EXCEPT !.userQueries = put(@, query, queryEntry)]

\* cacheUserQuery(query, results, framework) (the results play no part here); the
\* records it deletes are listed in st.evicted
cacheUserQuery(st, query, framework) ==
    LET s1 == lazyInit(st)
        queryEntry == [query |-> query, timestamp |-> now, framework |-> framework]
    IN IF s1.thrown # "none" THEN s1
       ELSE LET stored == put(s1.userQueries, query, queryEntry)
                old == oldQueries(stored)
                gone == { old[i] : i \in 1..Len(old) }
            IN [s1 EXCEPT
                  !.userQueries = [k \in DOMAIN stored \ gone |-> stored[k]],
                  !.evicted = @ \o [i \in 1..Len(old) |-> stored[old[i]]]]

----------------------------------------------------------------------------
(* Codec: compressWithBrotli / decompressFromBrotli. A byte is written as the *)
(* one-character string String.fromCharCode gives it (an ASCII character is  *)
(* its own byte; the bytes of longer characters are written in hex). The     *)
(* gzip stream and its base64 text are modelled as a run-length code: every  *)
(* run of a byte, cut at 4, becomes the byte followed by the digit of its    *)
(* length. Characters outside ASCII are written by their code point.         *)

\* the UTF-8 bytes of a character; TextEncoder takes a USVString, so a lone
\* surrogate is encoded as U+FFFD
utf8(c) ==
    CASE c = "U+00E9" -> <<"C3", "A9">>
      [] c = "U+FEFF" -> <<"EF", "BB", "BF">>
      [] c = "U+FFFD" -> <<"EF", "BF", "BD">>
      [] c = "U+D800" -> <<"EF", "BF", "BD">>
      [] OTHER -> <<c>>

\* new TextEncoder().encode(data)
RECURSIVE encode(_)
encode(data) ==
    IF data = << >> THEN << >> ELSE utf8(Head(data)) \o encode(Tail(data))

\* new TextDecoder().decode(bytes): UTF-8, a byte sequence that is no character
\* becomes U+FFFD, and (ignoreBOM is false) a byte order mark at the start is dropped
RECURSIVE decode(_, _)
decode(bytes, start) ==
    IF bytes = << >> THEN << >>
    ELSE IF Len(bytes) >= 3 /\ SubSeq(bytes, 1, 3) = <<"EF", "BB", "BF">>
         THEN (IF start THEN << >> ELSE <<"U+FEFF">>)
                 \o decode(SubSeq(bytes, 4, Len(bytes)), FALSE)
    ELSE IF Len(bytes) >= 3 /\ SubSeq(bytes, 1, 3) = <<"EF", "BF", "BD">>
         THEN <<"U+FFFD">> \o decode(SubSeq(bytes, 4, Len(bytes)), FALSE)
    ELSE IF Len(bytes) >= 2 /\ SubSeq(bytes, 1, 2) = <<"C3", "A9">>
         THEN <<"U+00E9">> \o decode(SubSeq(bytes, 3, Len(bytes)), FALSE)
    ELSE IF Head(bytes) \in {"C3", "A9", "EF", "BB", "BF", "BD"}
         THEN <<"U+FFFD">> \o decode(Tail(bytes), FALSE)
    ELSE <<Head(bytes)>> \o decode(Tail(bytes), FALSE)

digit(n) == CASE n = 1 -> "1" [] n = 2 -> "2" [] n = 3 -> "3" [] n = 4 -> "4" [] OTHER -> "?"
number(d) == CASE d = "1" -> 1 [] d = "2" -> 2 [] d = "3" -> 3 [] d = "4" -> 4 [] OTHER -> 0

RECURSIVE runLength(_)
runLength(s) ==
    IF Len(s) >= 2 /\ s[2] = s[1] THEN 1 + runLength(Tail(s)) ELSE 1

\* compress(input, ...) followed by btoa(String.fromCharCode(...compressed))
RECURSIVE compress(_)
compress(input) ==
    IF input = << >> THEN << >>
    ELSE LET run == runLength(input)
             n == IF run > 4 THEN 4 ELSE run
         IN <<Head(input), digit(n)>> \o compress(SubSeq(input, n + 1, Len(input)))

\* decompress() reports an error for a stream that is cut short or corrupt
canDecompress(z) ==
    /\ Len(z) % 2 = 0
    /\ \A i \in 1..Len(z) : i % 2 = 0 => number(z[i]) > 0

\* atob(compressedData) followed by decompress(compressed, ...)
RECURSIVE decompress(_)
decompress(z) ==
    IF z = << >> THEN << >>
    ELSE [i \in 1..number(z[2]) |-> z[1]] \o decompress(SubSeq(z, 3, Len(z)))

compressWithBrotli(data) == compress(encode(data))

decompressFromBrotli(compressedData) == decode(decompress(compressedData), TRUE)

----------------------------------------------------------------------------
(* storeFrameworkData *)

\* the fallback loop mirroring the compressed row instead of the item it was given
RECURSIVE mirrorCompressed(_, _)
mirrorCompressed(st, items) ==
    IF items = << >> \/ st.thrown # "none" THEN st
    ELSE mirrorCompressed(
            cacheSet(st, frameworkKey(Head(items).framework, Head(items).id),
                     [Head(items) EXCEPT !.content = compressWithBrotli(@)]),
            Tail(items))

\* for (const item of ...) await this.cacheSet(`framework_${item.framework}_${item.id}`, item);
\* a cacheSet that throws ends the loop
RECURSIVE mirror(_, _)
mirror(st, items) ==
    IF items = << >> \/ st.thrown # "none" THEN st
    ELSE mirror(cacheSet(st, frameworkKey(Head(items).framework, Head(items).id),
                         Head(items)),
                Tail(items))

\* batch.map(item => ({ ...item, content: compressedContent,
\*                      compressedSize: compressedContent.length, ... }))
compressedBatch(batch) ==
    [i \in 1..Len(batch) |->
        LET compressedContent == compressWithBrotli(batch[i].content)
        IN [batch[i] EXCEPT !.content = compressedContent,
                            !.compressedSize = Len(compressedContent)]]

\* a slice that does not end at i + batchSize
sliceToEnd(data, i) == SubSeq(data, i, Len(data))

\* data.slice(i, i + batchSize), with i counted from 1
slice(data, i) ==
    SubSeq(data, i, IF i + batchSize - 1 <= Len(data) THEN i + batchSize - 1 ELSE Len(data))

\* the body of the try block: for (let i = 0; i < data.length; i += batchSize) ...
\* results[b] is what the b-th upsert does: "ok", "error" ({ error } returned) or "throw"
RECURSIVE storeBatches(_, _, _, _)
storeBatches(st, data, i, results) ==
    IF i > Len(data) THEN st
    ELSE LET batch == slice(data, i)
             result == results[((i - 1) \div batchSize) + 1]
             s1 == [st EXCEPT !.sent = Append(@, [rows |-> compressedBatch(batch),
                                                  result |-> result])]
         IN IF result = "throw" THEN [s1 EXCEPT !.thrown = "RemoteUnavailable"]
            ELSE IF result = "error"
                 THEN LET s2 == mirror(s1, batch)
                      IN IF s2.thrown # "none" THEN s2
                         ELSE storeBatches(s2, data, i + batchSize, results)
            ELSE storeBatches(s1, data, i + batchSize, results)

\* storeFrameworkData(data)
storeFrameworkData(st, data, results) ==
    IF ~st.supabase THEN mirror(st, data)
    ELSE LET s1 == storeBatches(st, data, 1, results)
         IN IF s1.thrown = "none" THEN s1
            ELSE mirror([s1 EXCEPT !.thrown = "none"], data)

----------------------------------------------------------------------------
(* storeVectorEmbeddings *)

\* for (const embedding of embeddings) await this.cacheSet(`embedding_${embedding.id}`, embedding);
RECURSIVE mirrorEmbeddings(_, _)
mirrorEmbeddings(st, embeddings) ==
    IF embeddings = << >> \/ st.thrown # "none" THEN st
    ELSE mirrorEmbeddings(cacheSet(st, embeddingKey(Head(embeddings).id), Head(embeddings)),
                          Tail(embeddings))

\* storeVectorEmbeddings whose catch block only logs
storeVectorEmbeddingsNoFallback(st, embeddings, post) == st

\* storeVectorEmbeddings(embeddings); post is what the POST to /api/vectors/store
\* does: "ok", "error" (a non-OK response) or "throw"
storeVectorEmbeddings(st, embeddings, post) ==
    IF post = "ok" THEN st ELSE mirrorEmbeddings(st, embeddings)

----------------------------------------------------------------------------
(* getFrameworkData *)

\* getMockFrameworkData(framework)
getMockFrameworkData(framework) ==
    << [id |-> framework \o <<"-", "m", "o", "c", "k", "-", "1">>,
        framework |-> framework,
        content |-> <<"#", " ">> \o framework \o <<" ", "d", "o", "c">>,
        url |-> <<"h", "/">> \o framework,
        stars |-> 1000,
        compressedSize |-> 500],
       [id |-> framework \o <<"-", "m", "o", "c", "k", "-", "2">>,
        framework |-> framework,
        content |-> <<"#", " ">> \o framework \o <<" ", "e", "x">>,
        url |-> <<"h", "/">> \o framework \o <<"-", "e", "x">>,
        stars |-> 500,
        compressedSize |-> 300] >>

\* getAll('cache') in key order, as a sequence of keys
RECURSIVE keysInOrder(_)
keysInOrder(K) ==
    IF K = {} THEN << >>
    ELSE LET m == CHOOSE j \in K : \A k \in K : j = k \/ keyLess(j, k)
         IN <<m>> \o keysInOrder(K \ {m})

\* for (const cached of allCached)
\*   if (cached.key.startsWith(`framework_${framework}_`)) cachedData.push(cached.value);
cachedData(c, framework) ==
    LET hits == { k \in DOMAIN c : startsWith(k, frameworkPrefix(framework)) }
        order == keysInOrder(hits)
    IN [i \in 1..Len(order) |-> c[order[i]].value]

\* array.slice(0, limit)
slice0(list, limit) == SubSeq(list, 1, IF limit <= Len(list) THEN limit ELSE Len(list))

\* getFrameworkData without the mock fallback: an empty cache tier is returned as it is
getFrameworkDataNoMock(st, framework, limit, response, read) ==
    LET remoteServes ==
            /\ st.supabase
            /\ response.kind = "rows"
            /\ Len(response.rows) > 0
            /\ \A i \in 1..Len(response.rows) : canDecompress(response.rows[i].content)
        cachedRows == IF st.db # 0 THEN cachedData(st.cache, framework) ELSE << >>
    IN IF remoteServes
       THEN [st EXCEPT !.ret = [i \in 1..Len(response.rows) |->
                [response.rows[i] EXCEPT !.content = decompressFromBrotli(@)]]]
       ELSE IF st.db # 0 /\ read = "throw" THEN [st EXCEPT !.thrown = "ReadFailed"]
       ELSE [st EXCEPT !.ret = slice0(cachedRows, limit)]

\* getFrameworkData(framework, limit); response is what the remote select does:
\* kind "rows" (data = rows), "error" ({ error } returned) or "throw"; read is what
\* this.db.getAll('cache') does when the store is open: "ok" or "throw" (the request
\* fails), and that call is outside the try block
getFrameworkData(st, framework, limit, response, read) ==
    LET remoteServes ==
            /\ st.supabase
            /\ response.kind = "rows"
            /\ Len(response.rows) > 0
            /\ \A i \in 1..Len(response.rows) : canDecompress(response.rows[i].content)
        cachedRows == IF st.db # 0 THEN cachedData(st.cache, framework) ELSE << >>
    IN IF remoteServes
       THEN [st EXCEPT !.ret = [i \in 1..Len(response.rows) |->
                [response.rows[i] EXCEPT !.content = decompressFromBrotli(@)]]]
       ELSE IF st.db # 0 /\ read = "throw" THEN [st EXCEPT !.thrown = "ReadFailed"]
       ELSE IF Len(cachedRows) = 0
            THEN [st EXCEPT !.ret = getMockFrameworkData(framework)]
            ELSE [st EXCEPT !.ret = slice0(cachedRows, limit)]

----------------------------------------------------------------------------
(* searchFrameworkData, searchVectorEmbeddings, generateEmbedding *)

\* item => item.content.toLowerCase().includes(query.toLowerCase()) ||
\*         item.url.toLowerCase().includes(query.toLowerCase())
matchesQuery(item, query) ==
    \/ includes(toLowerCase(item.content), toLowerCase(query))
    \/ includes(toLowerCase(item.url), toLowerCase(query))

RECURSIVE filter(_, _)
filter(list, query) ==
    IF list = << >> THEN << >>
    ELSE (IF matchesQuery(Head(list), query) THEN <<Head(list)>> ELSE << >>)
            \o filter(Tail(list), query)

\* searchFrameworkData(query, framework); framework << >> is "not given" (falsy);
\* response is what the remote search does, inner and read what the remote select
\* and the cache read of the nested getFrameworkData(framework, 100) do
searchFrameworkData(st, query, framework, response, inner, read) ==
    LET remoteServes ==
            /\ st.supabase
            /\ response.kind = "rows"
            /\ Len(response.rows) > 0
            /\ \A i \in 1..Len(response.rows) : canDecompress(response.rows[i].content)
        s1 == IF framework # << >>
              THEN getFrameworkData(st, framework, 100, inner, read)
              ELSE [st EXCEPT !.ret = << >>]
    IN IF remoteServes
       THEN [st EXCEPT !.ret = [i \in 1..Len(response.rows) |->
                [response.rows[i] EXCEPT !.content = decompressFromBrotli(@)]]]
       ELSE IF s1.thrown # "none" THEN s1
       ELSE [s1 EXCEPT !.ret = slice0(filter(s1.ret, query), 50)]

\* textResults.slice(0, limit).map((item, index) => ({ id, score: 1 - index * 0.1,
\*   metadata: { url, stars, contentType, framework } })); the score in tenths
mockScores(textResults, limit) ==
    LET top == slice0(textResults, limit)
    IN [i \in 1..Len(top) |->
          [id |-> top[i].id,
           score |-> 10 - (i - 1),
           metadata |-> [url |-> top[i].url, stars |-> top[i].stars,
                         framework |-> top[i].framework]]]

\* searchVectorEmbeddings(query, framework, limit); vector is what the request to
\* the vector endpoint does: kind "ok" (matches = results.matches || []), "error"
\* (a non-OK response) or "throw" (fetch or response.json() rejects)
searchVectorEmbeddings(st, query, framework, limit, vector, response, inner, read) ==
    IF vector.kind = "ok" THEN [st EXCEPT !.ret = vector.matches]
    ELSE LET s1 == searchFrameworkData(st, query, framework, response, inner, read)
         IN IF s1.thrown # "none" THEN s1
            ELSE [s1 EXCEPT !.ret = mockScores(s1.ret, limit)]

\* The hash is kept as the two 16-bit halves <<high, low>> of its 32 bits.
\* the high half as the signed number it stands for
signedHigh(hash) == IF hash[1] >= 32768 THEN hash[1] - 65536 ELSE hash[1]

\* a step that drops the carry of the low half
hashStepNoCarry(hash, char) ==
    LET shifted == << (hash[1] * 32 + hash[2] \div 2048) % 65536, (hash[2] * 32) % 65536 >>
        low == shifted[2] - hash[2] + char
    IN << (signedHigh(shifted) - signedHigh(hash)) % 65536, low % 65536 >>

\* hash = ((hash << 5) - hash) + char; hash = hash & hash: the shift keeps the low
\* 32 bits, the difference and the sum are exact (high * 65536 + low, the low part
\* out of its range), and & wraps the result to 32 bits
hashStep(hash, char) ==
    LET shifted == << (hash[1] * 32 + hash[2] \div 2048) % 65536, (hash[2] * 32) % 65536 >>
        low == shifted[2] - hash[2] + char
    IN << (signedHigh(shifted) - signedHigh(hash) + low \div 65536) % 65536,
          low % 65536 >>

\* the signed value of the 32 bits
toInt32(hash) ==
    IF hash[1] >= 32768 THEN (hash[1] - 65536) * 65536 + hash[2]
    ELSE hash[1] * 65536 + hash[2]

RECURSIVE simpleHashFrom(_, _)
simpleHashFrom(hash, str) ==
    IF str = << >> THEN hash
    ELSE simpleHashFrom(hashStep(hash, charCodeAt(Head(str))), Tail(str))

simpleHash(str) == toInt32(simpleHashFrom(<<0, 0>>, str))

\* text.toLowerCase().split(/\s+/)
RECURSIVE split(_, _)
split(text, word) ==
    IF text = << >> THEN <<word>>
    ELSE IF Head(text) = " "
         THEN IF Len(text) >= 2 /\ text[2] = " " THEN split(Tail(text), word)
              ELSE <<word>> \o split(Tail(text), << >>)
         ELSE split(Tail(text), Append(word, Head(text)))

\* generateSimpleEmbedding(text): the vector is the normalized sum over the words of
\* (sin(hash + j) * 0.1) for j < 384; it is represented by its length and the
\* hashes of the words
generateSimpleEmbedding(text) ==
    LET words == split(toLowerCase(text), << >>)
    IN [kind |-> "simple", length |-> 384,
        values |-> [i \in 1..Len(words) |-> simpleHash(words[i])]]

\* generateEmbedding(text); apiKey is whether VITE_GEMINI_API_KEY is set, gemini what
\* the request does: kind "ok" (values = result.embedding.values), "error" (non-OK),
\* "throw" (fetch rejects, or the body has no embedding)
\* generateEmbedding that raises the failure of the request
generateEmbeddingNoFallback(st, text, apiKey, gemini) ==
    IF apiKey /\ gemini.kind = "ok"
    THEN [st EXCEPT !.ret = <<[kind |-> "gemini", values |-> gemini.values]>>]
    ELSE IF ~apiKey THEN [st EXCEPT !.ret = <<generateSimpleEmbedding(text)>>]
    ELSE [st EXCEPT !.thrown = "EmbeddingFailed"]

generateEmbedding(st, text, apiKey, gemini) ==
    IF apiKey /\ gemini.kind = "ok"
    THEN [st EXCEPT !.ret = <<[kind |-> "gemini", values |-> gemini.values]>>]
    ELSE [st EXCEPT !.ret = <<generateSimpleEmbedding(text)>>]

----------------------------------------------------------------------------
(* healthCheck *)

\* getCacheStats(); utilizationPercent in whole percent
getCacheStats(st) ==
    LET s1 == lazyInit(st)
    IN IF s1.thrown # "none" THEN s1
       ELSE [s1 EXCEPT !.ret = << [size |-> s1.cacheSize,
                                   maxSize |-> MAX_CACHE_SIZE,
                                   entryCount |-> Cardinality(DOMAIN s1.cache),
                                   utilizationPercent |->
                                       (s1.cacheSize * 100) \div MAX_CACHE_SIZE] >>]

\* healthCheck with one try/catch around the three probes: the first probe that
\* throws ends the check
healthCheckOneTry(st, remote, vector) ==
    LET s1 == lazyInit(st)
        s2 == IF s1.thrown # "none" THEN s1 ELSE getCacheStats(s1)
    IN IF st.supabase /\ remote = "throw" THEN [st EXCEPT !.thrown = "RemoteUnavailable"]
       ELSE IF s2.thrown # "none" THEN s2
       ELSE IF vector = "throw" THEN [s2 EXCEPT !.thrown = "VectorUnavailable", !.ret = << >>]
       ELSE [s2 EXCEPT !.ret = << [supabase |-> st.supabase /\ remote = "ok",
                                   indexedDB |-> s2.db # 0,
                                   vectorDB |-> vector = "ok",
                                   cacheStats |-> s2.ret] >>]

\* healthCheck(); remote and vector are what the two network probes do:
\* "ok", "error" (an error result / a non-OK response) or "throw"
healthCheck(st, remote, vector) ==
    LET supabaseOk == st.supabase /\ remote = "ok"
        s1 == lazyInit(st)
        s2 == IF s1.thrown # "none" THEN s1 ELSE getCacheStats(s1)
        indexedDBOk == s2.thrown = "none" /\ s2.db # 0
        vectorOk == vector = "ok"
    IN [s2 EXCEPT !.thrown = "none",
                  !.ret = << [supabase |-> supabaseOk,
                              indexedDB |-> indexedDBOk,
                              vectorDB |-> vectorOk,
                              cacheStats |-> IF s2.thrown = "none" THEN s2.ret ELSE << >>] >>]

----------------------------------------------------------------------------
(* Actions *)

\* the service state a handler leaves behind, and the record of the call
Done(result, name, args) ==
    \E st \in {result} :
        /\ cache' = st.cache
        /\ userQueries' = st.userQueries
        /\ UNCHANGED conc
        /\ db' = st.db
        /\ supabase' = st.supabase
        /\ cacheSize' = st.cacheSize
        /\ initialized' = st.initialized
        /\ opens' = st.opens
        /\ op' = name
        /\ inits' = IF name # "init" THEN 0
                    ELSE IF ~initialized THEN 1
                    ELSE IF inits >= 1 THEN 2 ELSE 0
        /\ arg' = args
        /\ ret' = st.ret
        /\ thrown' = st.thrown
        /\ evicted' = st.evicted
        /\ sent' = st.sent

\* the calls that may be in flight together
Procs == {1, 2}

\* no call in flight
Idle ==
    [pc |-> "idle", key |-> << >>, value |-> << >>, size |-> 0, timestamp |-> 0,
     entries |-> << >>, i |-> 0, freedSpace |-> 0, deleted |-> {}]

----------------------------------------------------------------------------
(* The app store (stores/useAppStore.ts): the state of the zustand store, and the  *)
(* item 'multiagent-app-storage' that the persist middleware writes to            *)
(* localStorage after every set and reads when the page loads. Strings are         *)
(* sequences; apiKeys is a function from service to key.                           *)

\* the state the store is created with
initialState ==
    [isDarkMode |-> FALSE, projectName |-> << >>, selectedFramework |-> << >>,
     agents |-> << >>, workflowSteps |-> << >>, inputMode |-> <<"form">>,
     isListening |-> FALSE, voiceTranscript |-> << >>, ragDataLastUpdated |-> << >>,
     apiKeys |-> << >>]

\* persist without the partition: the whole state is written
partializeEverything(state) == state

\* partialize: (state) => ({ ... })
partialize(state) ==
    [isDarkMode |-> state.isDarkMode, projectName |-> state.projectName,
     agents |-> state.agents, workflowSteps |-> state.workflowSteps,
     ragDataLastUpdated |-> state.ragDataLastUpdated, apiKeys |-> state.apiKeys]

\* a JSON string literal: the quotation mark and the backslash are escaped
RECURSIVE escape(_)
escape(s) ==
    IF s = << >> THEN << >>
    ELSE (IF Head(s) \in {"\"", "\\"} THEN <<"\\", Head(s)>> ELSE <<Head(s)>>)
         \o escape(Tail(s))

RECURSIVE unescape(_)
unescape(t) ==
    IF t = << >> THEN << >>
    ELSE IF Head(t) = "\\" /\ Len(t) > 1 THEN <<t[2]>> \o unescape(Tail(Tail(t)))
    ELSE <<Head(t)>> \o unescape(Tail(t))

jsonString(s) == <<"\"">> \o escape(s) \o <<"\"">>
parseString(t) == unescape(SubSeq(t, 2, Len(t) - 1))

jsonBoolean(b) == IF b THEN <<"true">> ELSE <<"false">>
parseBoolean(t) == t = <<"true">>

\* JSON.stringify of the value of a field of the state
stringifyField(field, value) ==
    CASE field \in {"isDarkMode", "isListening"} -> jsonBoolean(value)
      [] field \in {"agents", "workflowSteps"} ->
            [i \in 1..Len(value) |->
                [f \in DOMAIN value[i] |-> jsonString(value[i][f])]]
      [] field = "apiKeys" -> [service \in DOMAIN value |-> jsonString(value[service])]
      [] OTHER -> jsonString(value)

\* JSON.parse of it
parseField(field, text) ==
    CASE field \in {"isDarkMode", "isListening"} -> parseBoolean(text)
      [] field \in {"agents", "workflowSteps"} ->
            [i \in 1..Len(text) |-> [f \in DOMAIN text[i] |-> parseString(text[i][f])]]
      [] field = "apiKeys" -> [service \in DOMAIN text |-> parseString(text[service])]
      [] OTHER -> parseString(text)

\* the item written: JSON.stringify({ state: partialize(state), version: 0 })
stringify(partial) ==
    [state |-> [field \in DOMAIN partial |-> stringifyField(field, partial[field])],
     version |-> 0]

parse(item) == [field \in DOMAIN item.state |-> parseField(field, item.state[field])]

\* { ...state, ...partial }
merge(state, partial) ==
    [field \in DOMAIN state |->
        IF field \in DOMAIN partial THEN partial[field] ELSE state[field]]

\* the state of the store when the page has loaded: the initial state, with the
\* item of localStorage (<<item>>, or << >> when there is none) merged into it
rehydrate(item) ==
    IF item = << >> THEN initialState ELSE merge(initialState, parse(item[1]))

\* RATE_LIMIT_DELAY = 1000 ms, in ticks of the clock
RATE_LIMIT_DELAY == 2

\* lastRequestTime = 0: the epoch, more than RATE_LIMIT_DELAY before any call (the
\* clock of the model counts from its start)
epoch == 0 - RATE_LIMIT_DELAY

\* a page session starts: the module is loaded and getInstance() constructs the
\* singleton with its field initializers; the IndexedDB contents are what the
\* previous session left; the app store is created and rehydrated from localStorage
NewSession ==
    /\ sessions < MaxSessions
    /\ sessions' = sessions + 1
    /\ storeAvailable' \in BOOLEAN
    /\ db' = 0
    /\ supabase' = FALSE
    /\ cacheSize' = 0
    /\ initialized' = FALSE
    /\ op' = "new"
    /\ inits' = 0
    /\ arg' = << >>
    /\ ret' = << >>
    /\ thrown' = "none"
    /\ evicted' = << >>
    /\ sent' = << >>
    /\ calls' = [p \in DOMAIN calls |-> Idle]
    /\ txq' = [cache |-> << >>, userQueries |-> << >>]
    /\ lastRequestTime' = epoch
    /\ released' = << >>
    /\ appState' = rehydrate(storage)
    /\ UNCHANGED <<cache, userQueries, opens, creds, now, serverless, storage>>

\* time passes
Tick ==
    /\ now < MaxTime
    /\ now' = now + 1
    /\ UNCHANGED <<cache, userQueries, svc, sessions, creds, storeAvailable, hist, conc,
                   rest>>

CallInit ==
    /\ Done(init(Cur), "init", << >>)
    /\ UNCHANGED <<env, rest>>

CacheSet(key, value) ==
    /\ Done(cacheSet(Cur, key, value), "cacheSet", <<key, value>>)
    /\ UNCHANGED <<env, rest>>

CacheGet(key) ==
    /\ key \in DOMAIN cache => cache[key].accessCount < MaxAccess
    /\ Done(cacheGet(Cur, key), "cacheGet", <<key>>)
    /\ UNCHANGED <<env, rest>>

\* the query texts cached
QueryTexts == { <<"X">>, <<"Y">>, <<"h">>, <<"y">> }

CacheUserQuery(query, framework) ==
    /\ Done(cacheUserQuery(Cur, query, framework), "cacheUserQuery", <<query, framework>>)
    /\ UNCHANGED <<env, rest>>

ProbeResults == {"ok", "error", "throw"}

\* the records of the bulk calls: two that derive the same cache key, and two of
\* 3 units each, which do not fit the cache together
BulkRecords == { r \in Records : frameworkKey(r.framework, r.id) # frameworkKey(<<"a">>, <<"1">>) }

\* the lists of at most MaxLen bulk records, pairwise different
RecordLists ==
    { data \in UNION { [1..n -> BulkRecords] : n \in 0..MaxRecords } :
         \A i, j \in 1..Len(data) : i # j => data[i] # data[j] }

StoreFrameworkData(data, results) ==
    /\ Done(storeFrameworkData(Cur, data, results), "storeFrameworkData", <<data>>)
    /\ UNCHANGED <<env, rest>>

\* what the remote select may answer for a framework and a limit: an error, a throw,
\* no rows, or rows of that framework (compressed at rest, stars descending),
\* possibly with a content cut short
compressed(r) ==
    LET compressedContent == compressWithBrotli(r.content)
    IN [r EXCEPT !.content = compressedContent, !.compressedSize = Len(compressedContent)]
truncated(r) == [r EXCEPT !.content = SubSeq(@, 1, Len(@) - 1)]

RowLists(framework, limit) ==
    LET R == { r \in Records : r.framework = framework }
    IN { rows \in UNION { [1..n -> R] : n \in 1..2 } :
            /\ Len(rows) <= limit
            /\ \A i, j \in 1..Len(rows) :
                  i < j => rows[i].stars >= rows[j].stars /\ rows[i].id # rows[j].id }

Responses(framework, limit) ==
    { [kind |-> k, rows |-> << >>] : k \in {"rows", "error", "throw"} }
    \cup { [kind |-> "rows", rows |-> [i \in 1..Len(rows) |-> compressed(rows[i])]] :
              rows \in RowLists(framework, limit) }
    \cup { [kind |-> "rows",
            rows |-> [i \in 1..Len(rows) |-> truncated(compressed(rows[i]))]] :
              rows \in RowLists(framework, limit) }

GetFrameworkData(framework, limit, response, read) ==
    /\ Done(getFrameworkData(Cur, framework, limit, response, read), "getFrameworkData",
            <<framework, limit, response.kind, read>>)
    /\ UNCHANGED <<env, rest>>

HealthCheck(remote, vector) ==
    /\ Done(healthCheck(Cur, remote, vector), "healthCheck", <<remote, vector>>)
    /\ UNCHANGED <<env, rest>>

\* the lists of at most MaxLen embeddings, pairwise different
EmbeddingLists ==
    { embeddings \in UNION { [1..n -> Embeddings] : n \in 0..MaxLen } :
         \A i, j \in 1..Len(embeddings) : i # j => embeddings[i] # embeddings[j] }

StoreVectorEmbeddings(embeddings, post) ==
    /\ Done(storeVectorEmbeddings(Cur, embeddings, post), "storeVectorEmbeddings",
            <<embeddings, post>>)
    /\ UNCHANGED <<env, rest>>

\* a request that is not made
NoResponse == [kind |-> "none", rows |-> << >>]

\* the search texts: one found in contents, in another case; one found in urls only
Queries == { <<"X">>, <<"h">> }

\* the rows of a list of records, as the remote table keeps them
rowsOf(list) == [i \in 1..Len(list) |-> compressed(list[i])]

\* the records of a set by stars descending (ties by id)
RECURSIVE byStars(_)
byStars(R) ==
    IF R = {} THEN << >>
    ELSE LET m == CHOOSE r \in R : \A q \in R :
                     \/ r.stars > q.stars
                     \/ r.stars = q.stars /\ (r.id = q.id \/ keyLess(r.id, q.id))
                     \/ r.stars = q.stars /\ r.id = q.id /\ (r = q \/ keyLess(r.framework, q.framework))
         IN <<m>> \o byStars(R \ {m})

\* what the remote search may answer: an error, a throw, or the rows whose stored
\* (compressed) content matches the pattern and whose framework is the one asked for
SearchResponses(query, framework) ==
    IF ~supabase THEN { NoResponse }
    ELSE { [kind |-> k, rows |-> << >>] : k \in {"error", "throw"} }
         \cup { [kind |-> "rows",
                 rows |-> rowsOf(byStars({ r \in Records :
                     /\ includes(toLowerCase(compressWithBrotli(r.content)), toLowerCase(query))
                     /\ framework # << >> => r.framework = framework }))] }

\* what the remote select of a nested getFrameworkData(framework, 100) may answer
InnerResponses(framework) ==
    IF ~supabase \/ framework = << >> THEN { NoResponse }
    ELSE { [kind |-> "error", rows |-> << >>],
           [kind |-> "rows",
            rows |-> rowsOf(byStars({ r \in Records : r.framework = framework }))] }

\* a remote answer that the handler returns from
serves(response) ==
    /\ response.kind = "rows"
    /\ Len(response.rows) > 0
    /\ \A i \in 1..Len(response.rows) : canDecompress(response.rows[i].content)

\* the nested select is made when the search did not serve
InnerResponsesAfter(response, framework) ==
    IF serves(response) THEN { NoResponse } ELSE InnerResponses(framework)

\* what the read of the cache collection may do, where one is made
ReadResults == IF db = 0 THEN {"ok"} ELSE {"ok", "throw"}

\* the cache is read when a framework is given and neither request served
ReadResultsAfter(response, inner, framework) ==
    IF serves(response) \/ serves(inner) \/ framework = << >> THEN {"ok"} ELSE ReadResults

SearchFrameworkData(query, framework, response, inner, read) ==
    /\ Done(searchFrameworkData(Cur, query, framework, response, inner, read),
            "searchFrameworkData",
            <<query, framework, response.kind, inner.kind, read>>)
    /\ UNCHANGED <<env, rest>>

\* what the vector endpoint may answer to a search
VectorResponses ==
    { [kind |-> "ok", matches |-> << >>],
      [kind |-> "ok",
       matches |-> << [id |-> <<"1">>, score |-> 9,
                       metadata |-> [url |-> <<"h">>, stars |-> 1,
                                     framework |-> <<"a">>]] >>],
      [kind |-> "error", matches |-> << >>],
      [kind |-> "throw", matches |-> << >>] }

SearchVectorEmbeddings(query, framework, limit, vector, response, inner, read) ==
    /\ Done(searchVectorEmbeddings(Cur, query, framework, limit, vector, response,
                                   inner, read),
            "searchVectorEmbeddings",
            <<query, framework, limit, vector.kind, response.kind, inner.kind, read>>)
    /\ UNCHANGED <<env, rest>>

\* the texts embedded, and what the Gemini endpoint may answer
Texts == { << >>, <<"X", " ", "y">>, <<"x", " ", " ", "y">> }

GeminiResponses ==
    { [kind |-> "ok", values |-> <<1, 2>>],
      [kind |-> "error", values |-> << >>],
      [kind |-> "throw", values |-> << >>] }

GenerateEmbedding(text, apiKey, gemini) ==
    /\ Done(generateEmbedding(Cur, text, apiKey, gemini), "generateEmbedding",
            <<text, apiKey, gemini.kind>>)
    /\ UNCHANGED <<env, rest>>

----------------------------------------------------------------------------
(* cacheSet and cacheUserQuery followed await by await. Each action is the   *)
(* code a call runs between two awaits; a request on an object store runs    *)
(* when the requests and transactions queued before it on that store are     *)
(* done, and the deletes of a transaction take effect when it commits.       *)

\* the call joins the queue of an object store
enqueue(q, store, p) == [q EXCEPT ![store] = Append(@, p)]

\* the request of the call at the head of the queue has run
dequeue(q, store) == [q EXCEPT ![store] = Tail(@)]

atHead(store, p) == txq[store] # << >> /\ Head(txq[store]) = p

\* the calls in flight together are calls of one handler, and call 2 starts while
\* call 1 is in flight (a call that runs alone is call 1)
mayBegin(p, labels) ==
    /\ calls[p].pc = "idle"
    /\ p = 1 \/ calls[1].pc # "idle"
    /\ \A q \in Procs : calls[q].pc \in labels \cup {"idle"}

\* tx.objectStore(...).delete(key) of a call that commits each delete on its own
deleteAutocommit(store, deleted, key) ==
    [store |-> [k \in DOMAIN store \ {key} |-> store[k]], deleted |-> deleted \cup {key}]

\* await tx.objectStore(...).delete(key): the delete is pending in the transaction
deleteInTx(store, deleted, key) ==
    [store |-> store, deleted |-> deleted \cup {key}]

\* await tx.done: the pending deletes take effect together
commit(store, deleted) == [k \in DOMAIN store \ deleted |-> store[k]]

\* cacheSet(key, value) up to its first await, on an open store: the size, the
\* check of ensureCacheSpace (line 575) and either the getAll request (line 578)
\* or, when there is room, the put request (lines 455-463)
BeginCacheSet(p, key, value) ==
    /\ mayBegin(p, {"getAll", "delete", "txdone", "put"})
    /\ db # 0
    /\ key \notin DOMAIN cache
    /\ \A q \in Procs : calls[q].pc = "idle" \/ calls[q].key # key
    /\ LET fits == cacheSize + blobSize(value) <= MAX_CACHE_SIZE
       IN calls' = [calls EXCEPT ![p] =
              [Idle EXCEPT !.pc = IF fits THEN "put" ELSE "getAll",
                           !.key = key, !.value = value, !.size = blobSize(value),
                           !.timestamp = now]]
    /\ txq' = enqueue(txq, "cache", p)
    /\ UNCHANGED <<cache, userQueries, svc, env, rest, hist>>

\* getAll('cache') resolves (line 578): the sort, the transaction (line 588) and
\* the first pass through the loop head (line 591)
GetAllDone(p) ==
    /\ calls[p].pc = "getAll"
    /\ atHead("cache", p)
    /\ LET order == sortedKeys(cache, DOMAIN cache)
           entries == [j \in 1..Len(order) |->
                          [key |-> order[j], size |-> cache[order[j]].size]]
           stop == entries = << >> \/ cacheSize + calls[p].size <= MAX_CACHE_SIZE
       IN calls' = [calls EXCEPT ![p].entries = entries,
                                 ![p].i = IF stop THEN 0 ELSE 1,
                                 ![p].pc = IF stop THEN "txdone" ELSE "delete"]
    /\ txq' = enqueue(dequeue(txq, "cache"), "cache", p)
    /\ UNCHANGED <<cache, userQueries, svc, env, rest, hist>>

\* a delete of the eviction loop resolves (line 593): freedSpace grows (line 594)
\* and the loop head is passed again (lines 590-591)
DeleteDone(p) ==
    /\ calls[p].pc = "delete"
    /\ atHead("cache", p)
    /\ LET c == calls[p]
           done == deleteInTx(cache, c.deleted, c.entries[c.i].key)
           freedSpace == c.freedSpace + c.entries[c.i].size
           stop == \/ c.i = Len(c.entries)
                   \/ cacheSize - freedSpace + c.size <= MAX_CACHE_SIZE
       IN /\ cache' = done.store
          /\ calls' = [calls EXCEPT ![p].deleted = done.deleted,
                                    ![p].freedSpace = freedSpace,
                                    ![p].i = IF stop THEN c.i ELSE c.i + 1,
                                    ![p].pc = IF stop THEN "txdone" ELSE "delete"]
    /\ UNCHANGED <<userQueries, svc, env, rest, hist, txq>>

\* tx.done resolves (line 597): this.cacheSize -= freedSpace (line 598), and back in
\* cacheSet the entry is built and the put requested (lines 455-463)
TxDone(p) ==
    /\ calls[p].pc = "txdone"
    /\ atHead("cache", p)
    /\ cache' = commit(cache, calls[p].deleted)
    /\ cacheSize' = cacheSize - calls[p].freedSpace
    /\ calls' = [calls EXCEPT ![p].pc = "put", ![p].timestamp = now]
    /\ txq' = enqueue(dequeue(txq, "cache"), "cache", p)
    /\ UNCHANGED <<userQueries, db, supabase, initialized, opens, env, rest, hist>>

\* the put resolves (line 463): this.cacheSize += size (line 464) and the call ends
PutDone(p) ==
    /\ calls[p].pc = "put"
    /\ atHead("cache", p)
    /\ cache' = put(cache, calls[p].key,
                    [value |-> calls[p].value, timestamp |-> calls[p].timestamp,
                     size |-> calls[p].size, accessCount |-> 1])
    /\ cacheSize' = cacheSize + calls[p].size
    /\ calls' = [calls EXCEPT ![p] = Idle]
    /\ txq' = dequeue(txq, "cache")
    /\ UNCHANGED <<userQueries, db, supabase, initialized, opens, env, rest, hist>>

\* cacheUserQuery(query, results, framework) up to its first await, on an open
\* store: the record and the put request (lines 484-491)
BeginCacheUserQuery(p, query, framework) ==
    /\ mayBegin(p, {"qput", "qgetAll", "qdelete", "qtxdone"})
    /\ db # 0
    /\ calls' = [calls EXCEPT ![p] =
           [Idle EXCEPT !.pc = "qput", !.key = query, !.value = framework,
                        !.timestamp = now]]
    /\ txq' = enqueue(txq, "userQueries", p)
    /\ UNCHANGED <<cache, userQueries, svc, env, rest, hist>>

\* the put resolves (line 491) and the index is read (line 494)
QueryPutDone(p) ==
    /\ calls[p].pc = "qput"
    /\ atHead("userQueries", p)
    /\ userQueries' = put(userQueries, calls[p].key,
                          [query |-> calls[p].key, timestamp |-> calls[p].timestamp,
                           framework |-> calls[p].value])
    /\ calls' = [calls EXCEPT ![p].pc = "qgetAll"]
    /\ txq' = enqueue(dequeue(txq, "userQueries"), "userQueries", p)
    /\ UNCHANGED <<cache, svc, env, rest, hist>>

\* getAllFromIndex resolves (line 494): with more than the retained number of
\* records, the transaction and its first delete (lines 496-499), else the call ends
QueryGetAllDone(p) ==
    /\ calls[p].pc = "qgetAll"
    /\ atHead("userQueries", p)
    /\ LET old == oldQueries(userQueries)
       IN IF old = << >>
          THEN /\ calls' = [calls EXCEPT ![p] = Idle]
               /\ txq' = dequeue(txq, "userQueries")
          ELSE /\ calls' = [calls EXCEPT
                     ![p].entries = [j \in 1..Len(old) |-> [key |-> old[j], size |-> 0]],
                     ![p].i = 1, ![p].pc = "qdelete"]
               /\ txq' = enqueue(dequeue(txq, "userQueries"), "userQueries", p)
    /\ UNCHANGED <<cache, userQueries, svc, env, rest, hist>>

\* a delete of the pruning loop resolves (lines 498-500)
QueryDeleteDone(p) ==
    /\ calls[p].pc = "qdelete"
    /\ atHead("userQueries", p)
    /\ LET c == calls[p]
           done == deleteInTx(userQueries, c.deleted, c.entries[c.i].key)
           stop == c.i = Len(c.entries)
       IN /\ userQueries' = done.store
          /\ calls' = [calls EXCEPT ![p].deleted = done.deleted,
                                    ![p].i = IF stop THEN c.i ELSE c.i + 1,
                                    ![p].pc = IF stop THEN "qtxdone" ELSE "qdelete"]
    /\ UNCHANGED <<cache, svc, env, rest, hist, txq>>

\* tx.done resolves (line 501) and the call ends
QueryTxDone(p) ==
    /\ calls[p].pc = "qtxdone"
    /\ atHead("userQueries", p)
    /\ userQueries' = commit(userQueries, calls[p].deleted)
    /\ calls' = [calls EXCEPT ![p] = Idle]
    /\ txq' = dequeue(txq, "userQueries")
    /\ UNCHANGED <<cache, svc, env, rest, hist>>

Init ==
    /\ cache = << >>
    /\ userQueries = << >>
    /\ calls = [p \in Procs |-> Idle]
    /\ txq = [cache |-> << >>, userQueries |-> << >>]
    /\ db = 0
    /\ supabase = FALSE
    /\ cacheSize = 0
    /\ initialized = FALSE
    /\ opens = 0
    /\ sessions = 1
    /\ creds \in BOOLEAN
    /\ storeAvailable \in BOOLEAN
    /\ now = 0
    /\ op = "new"
    /\ inits = 0
    /\ arg = << >>
    /\ ret = << >>
    /\ thrown = "none"
    /\ evicted = << >>
    /\ sent = << >>
    /\ lastRequestTime = epoch
    /\ released = << >>
    /\ vectorStore = << >>
    /\ appState = initialState
    /\ storage = << >>

NextCache ==
    \/ Tick
    \/ CallInit
    \/ \E key \in PlainKeys, value \in PlainValues : CacheSet(key, value)
    \/ \E key \in PlainKeys : CacheGet(key)

\* what the upserts of a call do, batch by batch, up to the first that throws;
\* without a client no upsert is made
BatchResults(data) ==
    LET batches == (Len(data) + batchSize - 1) \div batchSize
    IN IF ~supabase THEN { << >> }
       ELSE { results \in UNION { [1..n -> ProbeResults] : n \in 0..batches } :
                /\ \A b \in 1..(Len(results) - 1) : results[b] # "throw"
                /\ Len(results) < batches => /\ Len(results) > 0
                                             /\ results[Len(results)] = "throw" }

NextStore ==
    \/ NewSession
    \/ CallInit
    \/ \E data \in RecordLists : \E results \in BatchResults(data) :
          StoreFrameworkData(data, results)

NextRead ==
    \/ NewSession
    \/ CallInit
    \/ \E data \in [1..1 -> Records] : \E results \in BatchResults(data) :
          StoreFrameworkData(data, results)
    \/ \E framework \in Tags, limit \in 0..MaxLimit :
          \E response \in Responses(framework, limit) :
             GetFrameworkData(framework, limit, response, "ok")
    \/ \E remote \in ProbeResults, vector \in ProbeResults : HealthCheck(remote, vector)

\* the inputs of a search whose earlier steps make the later ones happen
NextSearch ==
    \/ CallInit
    \/ \E data \in [1..1 -> PlainValues] : \E results \in BatchResults(data) :
          StoreFrameworkData(data, results)
    \/ \E framework \in Tags, limit \in 0..MaxLimit :
          \E response \in InnerResponses(framework) :
             \E read \in ReadResultsAfter(NoResponse, response, framework) :
                GetFrameworkData(framework, limit, response, read)
    \/ \E query \in Queries, framework \in Tags \cup {<< >>} :
          \E response \in SearchResponses(query, framework) :
             \E inner \in InnerResponsesAfter(response, framework) :
                \E read \in ReadResultsAfter(response, inner, framework) :
                   SearchFrameworkData(query, framework, response, inner, read)
    \/ \E query \in Queries, framework \in Tags \cup {<< >>}, limit \in 0..MaxLimit :
          \E vector \in VectorResponses :
             \E response \in IF vector.kind = "ok" THEN { NoResponse }
                               ELSE SearchResponses(query, framework) :
                \E inner \in IF vector.kind = "ok" THEN { NoResponse }
                               ELSE InnerResponsesAfter(response, framework) :
                   \E read \in IF vector.kind = "ok" THEN {"ok"}
                                 ELSE ReadResultsAfter(response, inner, framework) :
                      SearchVectorEmbeddings(query, framework, limit, vector, response,
                                             inner, read)
    \/ \E text \in Texts, apiKey \in BOOLEAN, gemini \in GeminiResponses :
          GenerateEmbedding(text, apiKey, gemini)

NextVector ==
    \/ NewSession
    \/ CallInit
    \/ \E embeddings \in EmbeddingLists, post \in ProbeResults :
          StoreVectorEmbeddings(embeddings, post)

\* the keys of the calls made across sessions
SessionKeys == { <<"k", "1">>, <<"k", "2">> }

NextCacheSessions ==
    \/ Tick
    \/ NewSession
    \/ CallInit
    \/ \E key \in SessionKeys, value \in PlainValues : CacheSet(key, value)
    \/ \E key \in SessionKeys : CacheGet(key)

NextQueries ==
    \/ Tick
    \/ NewSession
    \/ CallInit
    \/ \E query \in QueryTexts, framework \in Tags : CacheUserQuery(query, framework)

\* the end of a session while a call is between two of its awaits
Crash ==
    /\ \E p \in Procs : calls[p].pc # "idle"
    /\ NewSession

NextTx ==
    \/ Crash
    \/ CallInit
    \/ \E p \in Procs, key \in PlainKeys, value \in PlainValues : BeginCacheSet(p, key, value)
    \/ \E p \in Procs : GetAllDone(p)
    \/ \E p \in Procs : DeleteDone(p)
    \/ \E p \in Procs : TxDone(p)
    \/ \E p \in Procs : PutDone(p)
    \/ \E p \in Procs, query \in QueryTexts :
          BeginCacheUserQuery(p, query, <<"a">>)
    \/ \E p \in Procs : QueryPutDone(p)
    \/ \E p \in Procs : QueryGetAllDone(p)
    \/ \E p \in Procs : QueryDeleteDone(p)
    \/ \E p \in Procs : QueryTxDone(p)

SpecCache == Init /\ [][NextCache]_vars

SpecTx == Init /\ [][NextTx]_vars

SpecQueries == Init /\ [][NextQueries]_vars

SpecCacheSessions == Init /\ [][NextCacheSessions]_vars

SpecSearch == Init /\ [][NextSearch]_vars

SpecVector == Init /\ [][NextVector]_vars

SpecStore == Init /\ [][NextStore]_vars

SpecRead == Init /\ [][NextRead]_vars

----------------------------------------------------------------------------
(* Properties *)

\* C1: after every cacheSet that completes, cacheSize is at most MAX_CACHE_SIZE.
CacheBound ==
    (op = "cacheSet" /\ thrown = "none") => cacheSize <= MAX_CACHE_SIZE

\* C2: a cacheSet that overwrites an existing key with a value of another size, in
\* a state where cacheSize is the sum of the stored sizes, leaves cacheSize equal to
\* the sum of the stored sizes (the other entries plus the new size).
OverwriteAccounting ==
    [][ ( /\ op' = "cacheSet"
          /\ thrown' = "none"
          /\ db # 0
          /\ cacheSize = totalSize(cache)
          /\ arg'[1] \in DOMAIN cache
          /\ cache[arg'[1]].size # blobSize(arg'[2]) )
        => cacheSize' = totalSize(cache') ]_vars

\* C3: the eviction of a cacheSet never deletes an entry that has both a newer
\* timestamp and a higher accessCount than an entry it keeps.
EvictionSparesFresher ==
    (op = "cacheSet" /\ thrown = "none") =>
        \A i \in 1..Len(evicted) : \A k \in DOMAIN cache \ {arg[1]} :
            ~ ( /\ evicted[i].timestamp > cache[k].timestamp
                /\ evicted[i].accessCount > cache[k].accessCount )

\* C4: when the local store can be opened and holds a copy under a key
\* framework_{tag}_{id}, getFrameworkData(tag, limit) with limit >= 1 does not return
\* the synthetic records, and returns the cached copies whenever the remote did not
\* serve rows.
ReadFallbackOrder ==
    ( /\ op = "getFrameworkData"
      /\ storeAvailable
      /\ arg[2] >= 1
      /\ Len(cachedData(cache, arg[1])) > 0 ) =>
        /\ ret # getMockFrameworkData(arg[1])
        /\ (~supabase \/ arg[3] \in {"error", "throw"})
              => ret = slice0(cachedData(cache, arg[1]), arg[2])

batchOf(i) == ((i - 1) \div batchSize) + 1
notStored(data, requests) ==
    IF requests = << >> \/ \E b \in 1..Len(requests) : requests[b].result = "throw"
    THEN 1..Len(data)
    ELSE { i \in 1..Len(data) : requests[batchOf(i)].result = "error" }

\* the records of a call derive pairwise different cache keys
distinctKeys(data) ==
    \A i, j \in 1..Len(data) :
        i # j => frameworkKey(data[i].framework, data[i].id)
                    # frameworkKey(data[j].framework, data[j].id)

\* C6 (as claimed): after storeFrameworkData completes, every record whose remote
\* upsert did not succeed is in the cache under framework_{framework}_{id} with the
\* original record as value (stated for calls whose records derive different keys).
WriteFallbackKeepsAll ==
    (op = "storeFrameworkData" /\ thrown = "none" /\ distinctKeys(arg[1])) =>
        \A i \in notStored(arg[1], sent) :
            LET k == frameworkKey(arg[1][i].framework, arg[1][i].id)
            IN k \in DOMAIN cache /\ cache[k].value = arg[1][i]

\* C6 (amended): storeFrameworkData never raises the remote failure (it raises only
\* the failure to open the local store); when it returns, the last record whose
\* upsert did not succeed is in the cache under its key with the original record as
\* value, and every earlier such record is too, unless a later cacheSet of the call
\* evicted its entry or overwrote it under the same key.
WriteFallback ==
    op = "storeFrameworkData" =>
        /\ thrown \in {"none", "StoreUnavailable"}
        /\ thrown = "StoreUnavailable" => db = 0
        /\ thrown = "none" =>
              \A i \in notStored(arg[1], sent) :
                  LET k == frameworkKey(arg[1][i].framework, arg[1][i].id)
                      later == { j \in notStored(arg[1], sent) : j > i }
                  IN \/ k \in DOMAIN cache /\ cache[k].value = arg[1][i]
                     \/ /\ later # {}
                        /\ \/ \E j \in 1..Len(evicted) : evicted[j].key = k
                           \/ \E j \in later :
                                 frameworkKey(arg[1][j].framework, arg[1][j].id) = k

WriteFallbackWitness ==
    /\ op = "storeFrameworkData"
    /\ thrown = "none"
    /\ \E b \in 1..Len(sent) : sent[b].result = "error"
    /\ \E b \in 1..Len(sent) : sent[b].result = "ok"
    /\ notStored(arg[1], sent) # {}
    /\ \A i \in notStored(arg[1], sent) :
          LET k == frameworkKey(arg[1][i].framework, arg[1][i].id)
          IN k \in DOMAIN cache /\ cache[k].value = arg[1][i]

\* C7: an init() call that directly follows an init() call that initialized the
\* service changes nothing (same store handle, same client, no further open, same
\* cache and cacheSize), the service is initialized, and cacheSize is the sum of the
\* persisted entry sizes.
InitIdempotent ==
    [][ (op = "init" /\ inits = 1 /\ thrown = "none" /\ op' = "init")
        => /\ db' = db /\ db' # 0
           /\ opens' = opens
           /\ supabase' = supabase
           /\ initialized /\ initialized'
           /\ cache' = cache
           /\ cacheSize' = cacheSize
           /\ cacheSize' = totalSize(cache')
           /\ thrown' = "none" ]_vars

InitIdempotentWitness ==
    /\ op = "init"
    /\ inits = 2
    /\ thrown = "none"
    /\ initialized
    /\ cacheSize > 0
    /\ cacheSize = totalSize(cache)

\* C8: after every completed init() call, cacheSize is the sum of the persisted
\* entry sizes.
InitCorrectsDrift ==
    (op = "init" /\ thrown = "none") => cacheSize = totalSize(cache)

\* C9: healthCheck never raises, and each flag of its result is decided by its own
\* probe alone: supabase by the remote probe (run when there is a client), indexedDB
\* by whether the local store is or can be opened, vectorDB by the vector probe.
HealthProbesIndependent ==
    [][ op' = "healthCheck"
        => /\ thrown' = "none"
           /\ Len(ret') = 1
           /\ ret'[1].supabase = (supabase /\ arg'[1] = "ok")
           /\ ret'[1].indexedDB = (db # 0 \/ storeAvailable)
           /\ ret'[1].vectorDB = (arg'[2] = "ok") ]_vars

HealthProbesWitness ==
    /\ op = "healthCheck"
    /\ supabase
    /\ arg[1] = "throw"
    /\ arg[2] = "ok"
    /\ ret[1].supabase = FALSE
    /\ ret[1].indexedDB = TRUE
    /\ ret[1].vectorDB = TRUE

\* C10: when the local store cannot be opened, cacheGet returns null, cacheSet is
\* a no-op, and neither raises.
CacheDegrades ==
    ((op = "cacheGet" \/ op = "cacheSet") /\ ~storeAvailable) =>
        /\ thrown = "none"
        /\ op = "cacheGet" => ret = << >>

\* C11: getFrameworkData, searchFrameworkData, searchVectorEmbeddings and
\* generateEmbedding never raise, whatever the remote catalog, the vector and
\* embedding endpoints and the read of the cache collection do.
ReadPathsNeverThrow ==
    op \in {"getFrameworkData", "searchFrameworkData", "searchVectorEmbeddings",
            "generateEmbedding"} => thrown = "none"

\* a step is a call of the handler name
Called(name) == op' = name /\ now' = now

\* the entries of c other than key are those of d
sameOthers(c, d, key) ==
    /\ DOMAIN c = DOMAIN d
    /\ \A k \in DOMAIN c \ {key} : c[k] = d[k]

\* C12 (as claimed): a cacheGet(key) that finds an entry returns its value and
\* persists the entry with accessCount + 1 and timestamp now; value, size, every
\* other entry and cacheSize are unchanged.
CacheGetHitKeepsSize ==
    [][ (Called("cacheGet") /\ thrown' = "none" /\ arg'[1] \in DOMAIN cache)
        => /\ ret' = <<cache[arg'[1]].value>>
           /\ sameOthers(cache, cache', arg'[1])
           /\ cache'[arg'[1]] = [cache[arg'[1]] EXCEPT !.accessCount = @ + 1,
                                                      !.timestamp = now]
           /\ cacheSize' = cacheSize ]_vars

\* C12 (amended): as claimed, except that cacheSize is unchanged only when the store
\* is already open; a cacheGet that opens the store itself (the first call of a
\* session) leaves cacheSize at the sum of the persisted entry sizes.
CacheGetHit ==
    [][ (Called("cacheGet") /\ thrown' = "none" /\ arg'[1] \in DOMAIN cache)
        => /\ ret' = <<cache[arg'[1]].value>>
           /\ sameOthers(cache, cache', arg'[1])
           /\ cache'[arg'[1]] = [cache[arg'[1]] EXCEPT !.accessCount = @ + 1,
                                                      !.timestamp = now]
           /\ cacheSize' = IF db = 0 THEN totalSize(cache) ELSE cacheSize ]_vars

CacheGetHitWitness ==
    /\ op = "cacheGet"
    /\ ret # << >>
    /\ cache[arg[1]].accessCount = 2
    /\ cache[arg[1]].timestamp > 0
    /\ cacheSize > totalSize(cache)

CacheEntryInvariant ==
    [][ /\ \A k \in DOMAIN cache' :
              cache'[k].accessCount >= 1 /\ cache'[k].size = blobSize(cache'[k].value)
        /\ (Called("cacheSet") /\ thrown' = "none")
              => cache'[arg'[1]] = [value |-> arg'[2], timestamp |-> now,
                                    size |-> blobSize(arg'[2]), accessCount |-> 1]
        /\ Called("cacheGet")
              => /\ DOMAIN cache' = DOMAIN cache
                 /\ \A k \in DOMAIN cache :
                       cache'[k].size = cache[k].size /\ cache'[k].value = cache[k].value
      ]_vars

CacheEntryWitness ==
    /\ op = "cacheSet"
    /\ thrown = "none"
    /\ now > 0
    /\ evicted = << >>
    /\ cacheSize > totalSize(cache)
    /\ cache[arg[1]].accessCount = 1
    /\ cache[arg[1]].timestamp = now

\* C15: after every completed cacheUserQuery call the userQueries collection holds
\* at most the retained number of records (1000, scaled to recentQueries), no record
\* deleted by the call has a newer timestamp than a record kept, and caching a query
\* text that is already stored replaces its record without adding one.
QueryHistoryBound ==
    [][ (Called("cacheUserQuery") /\ thrown' = "none")
        => /\ Cardinality(DOMAIN userQueries') <= recentQueries
           /\ \A i \in 1..Len(evicted') : \A k \in DOMAIN userQueries' :
                 evicted'[i].timestamp <= userQueries'[k].timestamp
           /\ arg'[1] \in DOMAIN userQueries
                 => /\ DOMAIN userQueries' = DOMAIN userQueries
                    /\ userQueries'[arg'[1]] = [query |-> arg'[1], timestamp |-> now,
                                               framework |-> arg'[2]]
                    /\ \A k \in DOMAIN userQueries \ {arg'[1]} :
                          userQueries'[k] = userQueries[k] ]_vars

QueryHistoryWitness ==
    /\ op = "cacheUserQuery"
    /\ thrown = "none"
    /\ Len(evicted) = 1
    /\ evicted[1].timestamp > 0
    /\ Cardinality(DOMAIN userQueries) = recentQueries
    /\ \E k \in DOMAIN userQueries : userQueries[k].timestamp > evicted[1].timestamp

\* the embeddings of a call have pairwise different ids
distinctIds(embeddings) ==
    \A i, j \in 1..Len(embeddings) : i # j => embeddings[i].id # embeddings[j].id

\* C18 (as claimed, for calls that complete): after a storeVectorEmbeddings call whose
\* POST threw or was answered non-OK, every record of the call is in the cache under
\* embedding_{id}.
VectorFallbackKeepsAll ==
    (op = "storeVectorEmbeddings" /\ thrown = "none" /\ arg[2] # "ok"
        /\ distinctIds(arg[1])) =>
        \A i \in 1..Len(arg[1]) :
            /\ embeddingKey(arg[1][i].id) \in DOMAIN cache
            /\ cache[embeddingKey(arg[1][i].id)].value = arg[1][i]

\* C18 (amended): storeVectorEmbeddings never raises the failure of the POST (it
\* raises only the failure to open the local store); after a failed POST the last
\* record of the call is in the cache under embedding_{id}, and every earlier record
\* is too, unless a later cacheSet of the call evicted its entry or overwrote it
\* under the same id; after a successful POST nothing has changed.
VectorFallback ==
    [][ Called("storeVectorEmbeddings")
        => /\ thrown' \in {"none", "StoreUnavailable"}
           /\ thrown' = "StoreUnavailable" => db' = 0 /\ arg'[2] # "ok"
           /\ arg'[2] = "ok" => cache' = cache /\ cacheSize' = cacheSize /\ db' = db
           /\ (arg'[2] # "ok" /\ thrown' = "none") =>
                 \A i \in 1..Len(arg'[1]) :
                    LET k == embeddingKey(arg'[1][i].id)
                    IN \/ k \in DOMAIN cache' /\ cache'[k].value = arg'[1][i]
                       \/ /\ i < Len(arg'[1])
                          /\ \/ \E j \in 1..Len(evicted') : evicted'[j].key = k
                             \/ \E j \in (i + 1)..Len(arg'[1]) : arg'[1][j].id = arg'[1][i].id
      ]_vars

VectorFallbackWitness ==
    /\ op = "storeVectorEmbeddings"
    /\ thrown = "none"
    /\ arg[2] = "throw"
    /\ Len(arg[1]) = 2
    /\ evicted = << >>
    /\ \A i \in 1..Len(arg[1]) :
          /\ embeddingKey(arg[1][i].id) \in DOMAIN cache
          /\ cache[embeddingKey(arg[1][i].id)].value = arg[1][i]

\* C19: a searchVectorEmbeddings call whose request to the vector endpoint fails does
\* not raise, and returns at most limit items {id, score, metadata} whose scores are
\* 1 - 0.1 * rank (in tenths: 10 - rank), hence strictly decreasing.
VectorSearchFallback ==
    (op = "searchVectorEmbeddings" /\ arg[4] \in {"error", "throw"}) =>
        /\ thrown = "none"
        /\ Len(ret) <= arg[3]
        /\ \A i \in 1..Len(ret) : ret[i].score = 10 - (i - 1)
        /\ \A i \in 1..(Len(ret) - 1) : ret[i].score > ret[i + 1].score

\* C20: the list returned by getFrameworkData is sorted by stars, non-increasing
\* (stated for results whose records all belong to the framework asked for).
SortedByStars ==
    (op = "getFrameworkData" /\ thrown = "none"
        /\ \A i \in 1..Len(ret) : ret[i].framework = arg[1]) =>
        \A i \in 1..(Len(ret) - 1) : ret[i].stars >= ret[i + 1].stars

\* C16: while cacheSet calls for different, new keys interleave, cacheSize is never
\* negative, and once all of them have completed cacheSize is the sum of the sizes of
\* the entries in the store.
ConcurrentSetAccounting ==
    /\ cacheSize >= 0
    /\ (db # 0 /\ \A p \in Procs : calls[p].pc = "idle") => cacheSize = totalSize(cache)

\* the victims a pass has deleted in its transaction when it awaits tx.done
victims(c) == { c.entries[j].key : j \in 1..c.i }

\* C17: the records that leave an object store in one step are all the victims (still
\* stored) of one eviction pass, or of one pruning pass, and they leave when its
\* transaction commits: no step, a crash included, removes only some of them.
TxAtomic ==
    [][ /\ DOMAIN cache \ DOMAIN cache' # {}
              => \E p \in Procs :
                    /\ calls[p].pc = "txdone"
                    /\ calls'[p].pc = "put"
                    /\ DOMAIN cache \ DOMAIN cache' = victims(calls[p]) \cap DOMAIN cache
        /\ DOMAIN userQueries \ DOMAIN userQueries' # {}
              => \E p \in Procs :
                    /\ calls[p].pc = "qtxdone"
                    /\ calls'[p].pc = "idle"
                    /\ DOMAIN userQueries \ DOMAIN userQueries'
                          = victims(calls[p]) \cap DOMAIN userQueries
      ]_vars

TxAtomicWitness ==
    \E p \in Procs :
        /\ calls[p].pc = "put"
        /\ Cardinality(calls[p].deleted) = 2
        /\ calls[p].deleted \cap DOMAIN cache = {}
        /\ Cardinality(DOMAIN userQueries) = recentQueries
        /\ sessions > 1

\* C21: a getFrameworkData(tag, limit) call that completes returns at most limit
\* records, whichever tier served it.
LimitRespected ==
    (op = "getFrameworkData" /\ thrown = "none") => Len(ret) <= arg[2]

\* C22: a searchFrameworkData(query, tag) call that completes returns at most 50
\* records, each with a content that contains the query (whatever the case) and,
\* when a tag is given, with that tag as its framework.
SearchMatches ==
    (op = "searchFrameworkData" /\ thrown = "none") =>
        /\ Len(ret) <= 50
        /\ \A i \in 1..Len(ret) :
              /\ includes(toLowerCase(ret[i].content), toLowerCase(arg[1]))
              /\ arg[2] # << >> => ret[i].framework = arg[2]

----------------------------------------------------------------------------
(* The codec called on its own *)

\* the characters of the texts given to the codec: ASCII, a two-byte character, the
\* byte order mark, a lone surrogate
CodecChars == { "x", "U+00E9", "U+FEFF", "U+D800" }

CodecTexts == UNION { [1..n -> CodecChars] : n \in 0..(MaxLen + 1) }

CompressWithBrotli(data) ==
    /\ Done([Cur EXCEPT !.ret = <<compressWithBrotli(data)>>], "compressWithBrotli",
            <<data>>)
    /\ UNCHANGED <<env, rest>>

\* decompressFromBrotli of the text the last call produced, whole or cut short
DecompressFromBrotli(compressedData) ==
    /\ op = "compressWithBrotli"
    /\ compressedData \in { ret[1], SubSeq(ret[1], 1, Len(ret[1]) - 1) }
    /\ Done(IF canDecompress(compressedData)
            THEN [Cur EXCEPT !.ret = <<decompressFromBrotli(compressedData)>>]
            ELSE [Cur EXCEPT !.thrown = "DecompressError"],
            "decompressFromBrotli", <<compressedData>>)
    /\ UNCHANGED <<env, rest>>

NextCodec ==
    \/ \E data \in CodecTexts : CompressWithBrotli(data)
    \/ \E data \in CodecTexts :
          \E compressedData \in { compressWithBrotli(data),
                                  SubSeq(compressWithBrotli(data), 1,
                                         Len(compressWithBrotli(data)) - 1) } :
             DecompressFromBrotli(compressedData)

SpecCodec == Init /\ [][NextCodec]_vars

\* C23: decompressFromBrotli of what compressWithBrotli made of a string is that
\* string, for every string, the empty one and those with multi-byte characters
\* included.
CodecRoundTrip ==
    [][ (Called("decompressFromBrotli") /\ op = "compressWithBrotli" /\ arg' = ret)
        => (thrown' = "none" /\ ret' = arg) ]_vars

----------------------------------------------------------------------------
(* SecurityService: encryptApiKey / decryptApiKey. Bytes are counted in     *)
(* blocks of 4: a raw AES key is 4 (128 bits), 6 (192) or 8 (256) blocks,   *)
(* the IV 3 blocks (12 bytes), the GCM tag 4 blocks (16 bytes). AES-GCM is  *)
(* symbolic: a ciphertext block records the key, the IV and the plaintext   *)
(* it was made from, and decrypts only under that key and IV.               *)

KEY_LENGTH == 8
ivLength == 3
tagLength == 4

\* the CryptoKey objects a caller may pass: AES-GCM keys of 256 or 128 bits,
\* extractable or not
PassedKeys ==
    { [id |-> "p", length |-> n, extractable |-> e] : n \in {KEY_LENGTH, 4}, e \in BOOLEAN }

\* crypto.subtle.generateKey({ name: 'AES-GCM', length: 256 }, true, ...)
generateKey(id) == [id |-> id, length |-> KEY_LENGTH, extractable |-> TRUE]

\* the raw bytes of a key
rawKey(key) == [i \in 1..key.length |-> [kind |-> "key", id |-> key.id, pos |-> i]]

\* crypto.getRandomValues(new Uint8Array(12))
getRandomValues(id) == [i \in 1..ivLength |-> [kind |-> "iv", id |-> id, pos |-> i]]

\* crypto.subtle.encrypt({ name: 'AES-GCM', iv }, key, data): the ciphertext of the
\* data followed by the tag
encrypt(keyData, iv, data) ==
    [i \in 1..Len(data) |-> [kind |-> "ct", k |-> keyData, iv |-> iv, b |-> data[i], pos |-> i]]
    \o [i \in 1..tagLength |-> [kind |-> "tag", k |-> keyData, iv |-> iv, data |-> data, pos |-> i]]

\* crypto.subtle.decrypt({ name: 'AES-GCM', iv }, key, encrypted) succeeds when the
\* tag is that of the ciphertext under this key and IV
canDecrypt(keyData, iv, encrypted) ==
    /\ Len(encrypted) >= tagLength
    /\ LET n == Len(encrypted) - tagLength
       IN /\ \A i \in 1..n :
                /\ encrypted[i].kind = "ct"
                /\ encrypted[i].pos = i
                /\ encrypted[i].k = keyData
                /\ encrypted[i].iv = iv
          /\ \A i \in 1..tagLength :
                /\ encrypted[n + i].kind = "tag"
                /\ encrypted[n + i].pos = i
                /\ encrypted[n + i].k = keyData
                /\ encrypted[n + i].iv = iv
                /\ encrypted[n + i].data = [j \in 1..n |-> encrypted[j].b]

decrypt(encrypted) == [i \in 1..(Len(encrypted) - tagLength) |-> encrypted[i].b]

\* crypto.subtle.importKey('raw', keyData, { name: 'AES-GCM' }, ...) takes 128, 192
\* or 256 bits
canImportKey(keyData) == Len(keyData) \in {4, 6, 8}

\* btoa(String.fromCharCode(...combined)) and atob(...): every block as its text
btoa(combined) == [i \in 1..Len(combined) |-> [kind |-> "base64", of |-> combined[i]]]
atob(text) == [i \in 1..Len(text) |-> text[i].of]

\* combined.slice(from, to), with from and to counted from 0 as in the code
sliceBytes(combined, from, to) ==
    SubSeq(combined, from + 1, IF to <= Len(combined) THEN to ELSE Len(combined))

\* encryptApiKey(apiKey, key?): key is << >> when none is passed; fresh and random
\* are what generateKey and getRandomValues draw
encryptApiKey(st, apiKey, key, fresh, random) ==
    LET encryptionKey == IF key # << >> THEN key[1] ELSE generateKey(fresh)
        iv == getRandomValues(random)
        encrypted == encrypt(rawKey(encryptionKey), iv, encode(apiKey))
        combined == rawKey(encryptionKey) \o iv \o encrypted
    IN IF ~encryptionKey.extractable
       THEN [st EXCEPT !.thrown = "InvalidAccessError"]
       ELSE [st EXCEPT !.ret = <<btoa(combined)>>]

\* decryptApiKey(encryptedData)
decryptApiKey(st, encryptedData) ==
    LET combined == atob(encryptedData)
        keyData == sliceBytes(combined, 0, 32 \div 4)
        iv == sliceBytes(combined, 32 \div 4, 44 \div 4)
        encrypted == sliceBytes(combined, 44 \div 4, Len(combined))
    IN IF ~canImportKey(keyData) THEN [st EXCEPT !.thrown = "DataError"]
       ELSE IF ~canDecrypt(keyData, iv, encrypted)
            THEN [st EXCEPT !.thrown = "OperationError"]
       ELSE [st EXCEPT !.ret = <<decode(decrypt(encrypted), TRUE)>>]

\* the texts encrypted
ApiKeys == UNION { [1..n -> CodecChars] : n \in 0..MaxLen }

EncryptApiKey(apiKey, key, fresh, random) ==
    /\ Done(encryptApiKey(Cur, apiKey, key, fresh, random), "encryptApiKey",
            <<apiKey, key>>)
    /\ UNCHANGED <<env, rest>>

\* decryptApiKey of the envelope the last call returned
DecryptApiKey ==
    /\ op = "encryptApiKey"
    /\ thrown = "none"
    /\ Done(decryptApiKey(Cur, ret[1]), "decryptApiKey", ret)
    /\ UNCHANGED <<env, rest>>

NextCrypto ==
    \/ \E apiKey \in ApiKeys, key \in { << >> } \cup { <<k>> : k \in PassedKeys },
          fresh \in {"g1", "g2"}, random \in {"r1", "r2"} :
             EncryptApiKey(apiKey, key, fresh, random)
    \/ DecryptApiKey

SpecCrypto == Init /\ [][NextCrypto]_vars

\* C24: decryptApiKey of the envelope that encryptApiKey(s, key) returned is s, for
\* every string s, with a generated key and with a key passed by the caller; the
\* envelope is the raw key, the 12 bytes of the IV and the ciphertext, in the byte
\* ranges decryptApiKey reads them from.
CryptoRoundTrip ==
    [][ (Called("decryptApiKey") /\ op = "encryptApiKey")
        => /\ thrown' = "none"
           /\ ret' = <<arg[1]>>
           /\ LET combined == atob(ret[1])
              IN /\ sliceBytes(combined, 0, 8)[1].kind = "key"
                 /\ sliceBytes(combined, 0, 8)[8].kind = "key"
                 /\ \A i \in 1..ivLength : sliceBytes(combined, 8, 11)[i].kind = "iv"
                 /\ sliceBytes(combined, 11, Len(combined))[1].kind \in {"ct", "tag"} ]_vars

----------------------------------------------------------------------------
(* SecurityService.sanitizeCode. A text is a sequence of characters, "LF" is *)
(* the line feed. The texts given hold no "bearer", "sk-" or "xoxb-", so the *)
(* three patterns for those shapes leave them as they are.                   *)

isSpace(c) == c \in {" ", "LF"}
isQuote(c) == c \in {"'", "\""}

\* where \s* ends when it starts at i
RECURSIVE skipSpaces(_, _)
skipSpaces(code, i) ==
    IF i <= Len(code) /\ isSpace(code[i]) THEN skipSpaces(code, i + 1) ELSE i

\* where ([^'"\s]+) ends when it starts at i (i - 1 when it matches nothing)
RECURSIVE captureEnd(_, _)
captureEnd(code, i) ==
    IF i <= Len(code) /\ ~isSpace(code[i]) /\ ~isQuote(code[i])
    THEN captureEnd(code, i + 1) ELSE i - 1

\* the word at i, whatever the case (flag i)
wordAt(code, i, word) ==
    /\ i + Len(word) - 1 <= Len(code)
    /\ toLowerCase(SubSeq(code, i, i + Len(word) - 1)) = word

\* the key words of the five assignment patterns, in the order of sensitivePatterns
sensitivePatterns ==
    << { <<"a", "p", "i", "k", "e", "y">>, <<"a", "p", "i", "_", "k", "e", "y">>,
         <<"a", "p", "i", "-", "k", "e", "y">> },
       { <<"s", "e", "c", "r", "e", "t", "k", "e", "y">>,
         <<"s", "e", "c", "r", "e", "t", "_", "k", "e", "y">>,
         <<"s", "e", "c", "r", "e", "t", "-", "k", "e", "y">> },
       { <<"p", "a", "s", "s", "w", "o", "r", "d">> },
       { <<"t", "o", "k", "e", "n">> },
       { <<"c", "r", "e", "d", "e", "n", "t", "i", "a", "l">>,
         <<"c", "r", "e", "d", "e", "n", "t", "i", "a", "l", "s">> } >>

\* \s*[:=]\s*['"]([^'"\s]+)['"]? from position j: the capture and the end of the
\* match, or ok = FALSE
tailMatch(code, j) ==
    LET sep == skipSpaces(code, j)
        quote == skipSpaces(code, sep + 1)
        last == captureEnd(code, quote + 1)
    IN IF /\ sep <= Len(code) /\ code[sep] \in {":", "="}
          /\ quote <= Len(code) /\ isQuote(code[quote])
          /\ last >= quote + 1
       THEN [ok |-> TRUE, from |-> quote + 1, to |-> last,
             end |-> IF last + 1 <= Len(code) /\ isQuote(code[last + 1])
                     THEN last + 1 ELSE last]
       ELSE [ok |-> FALSE, from |-> 0, to |-> 0, end |-> 0]

\* the match of a pattern that starts at i
patternAt(code, i, words) ==
    LET fits == { w \in words : wordAt(code, i, w) /\ tailMatch(code, i + Len(w)).ok }
    IN IF fits = {} THEN [ok |-> FALSE, from |-> 0, to |-> 0, end |-> 0]
       ELSE tailMatch(code, i + Len(CHOOSE w \in fits : TRUE))

\* match.replace(capture, '*'.repeat(capture.length)): a string pattern replaces
\* its first occurrence in match
replaceFirst(match, capture) ==
    LET n == Len(capture)
        k == CHOOSE k \in 1..(Len(match) - n + 1) :
                /\ SubSeq(match, k, k + n - 1) = capture
                /\ \A l \in 1..(k - 1) : SubSeq(match, l, l + n - 1) # capture
    IN [i \in 1..Len(match) |-> IF i >= k /\ i < k + n THEN "*" ELSE match[i]]

\* sanitized.replace(pattern, (match, capture) => ...) with flag g, from position i
RECURSIVE replacePattern(_, _, _)
replacePattern(code, i, words) ==
    IF i > Len(code) THEN << >>
    ELSE LET m == patternAt(code, i, words)
         IN IF m.ok
            THEN replaceFirst(SubSeq(code, i, m.end), SubSeq(code, m.from, m.to))
                    \o replacePattern(code, m.end + 1, words)
            ELSE <<code[i]>> \o replacePattern(code, i + 1, words)

\* sensitivePatterns.forEach(pattern => ...)
RECURSIVE forEachPattern(_, _)
forEachPattern(code, n) ==
    IF n > Len(sensitivePatterns) THEN code
    ELSE forEachPattern(replacePattern(code, 1, sensitivePatterns[n]), n + 1)

\* the words of (api[_-]?key|secret|password|token)
commentWords ==
    sensitivePatterns[1] \cup sensitivePatterns[3] \cup sensitivePatterns[4]
       \cup { <<"s", "e", "c", "r", "e", "t">> }

\* the end of the line that position i is on
RECURSIVE lineEnd(_, _)
lineEnd(code, i) ==
    IF i + 1 <= Len(code) /\ code[i + 1] # "LF" THEN lineEnd(code, i + 1) ELSE i

\* sanitized.replace(/mark.*?(words).*/gi, mark + ' [REDACTED]') from position i:
\* from a mark that a word follows on its line, the rest of the line is replaced
RECURSIVE redact(_, _, _)
redact(code, i, mark) ==
    IF i > Len(code) THEN << >>
    ELSE LET end == IF code[i] = "LF" THEN i - 1 ELSE lineEnd(code, i)
             hit == /\ i + Len(mark) - 1 <= Len(code)
                    /\ SubSeq(code, i, i + Len(mark) - 1) = mark
                    /\ \E j \in (i + Len(mark))..end, w \in commentWords :
                          j + Len(w) - 1 <= end /\ wordAt(code, j, w)
         IN IF hit
            THEN mark \o <<" ", "[", "R", "E", "D", "A", "C", "T", "E", "D", "]">>
                    \o redact(code, end + 1, mark)
            ELSE <<code[i]>> \o redact(code, i + 1, mark)

\* sanitizeCode(code)
sanitizeCode(code) ==
    redact(redact(forEachPattern(code, 1), 1, <<"/", "/">>), 1, <<"#">>)

\* the texts given: one assignment on a line of code, after a line or a statement
\* and before the rest of its line
Assignments ==
    { [before |-> b, key |-> k, sep |-> s, open |-> o, value |-> v, close |-> o,
       after |-> a] :
        b \in { << >>, <<"x", "LF">>, <<"h", ":", "/", "/", "x", ";", " ">> },
        k \in { <<"T", "o", "k", "e", "n">>, <<"a", "p", "i", "_", "k", "e", "y">> },
        s \in { <<"=">>, <<" ", ":", " ">> },
        o \in { <<"'">>, << >> },
        v \in { <<"x">>, <<"k">>, <<"x", "k">> },
        a \in { << >>, <<";", " ", "#", "x">> } }

textOf(a) == a.before \o a.key \o a.sep \o a.open \o a.value \o a.close \o a.after

SanitizeCode(a) ==
    /\ Done([Cur EXCEPT !.ret = <<sanitizeCode(textOf(a))>>], "sanitizeCode", <<a>>)
    /\ UNCHANGED <<env, rest>>

NextSanitize == \E a \in Assignments : SanitizeCode(a)

SpecSanitize == Init /\ [][NextSanitize]_vars

\* C25: for a credential assignment on a line that is no comment (a key word, : or =,
\* a quote, a value without quotes or whitespace), sanitizeCode returns the text with
\* every character of the value replaced by an asterisk and nothing else changed.
SanitizeMasksValue ==
    (op = "sanitizeCode" /\ arg[1].open # << >>) =>
        ret[1] = arg[1].before \o arg[1].key \o arg[1].sep \o arg[1].open
                    \o [i \in 1..Len(arg[1].value) |-> "*"]
                    \o arg[1].close \o arg[1].after

----------------------------------------------------------------------------
(* Embeddings *)

\* C26: a generateEmbedding(text) call made without an API key, or whose request
\* fails, returns without raising the 384-element vector of generateSimpleEmbedding,
\* which is decided by the text alone, whatever the state of the service.
FallbackEmbeddingDeterministic ==
    (op = "generateEmbedding" /\ (~arg[2] \/ arg[3] # "ok")) =>
        /\ thrown = "none"
        /\ ret = <<generateSimpleEmbedding(arg[1])>>
        /\ ret[1].length = 384
        /\ ret[1].values = [i \in 1..Len(split(toLowerCase(arg[1]), << >>)) |->
                               simpleHash(split(toLowerCase(arg[1]), << >>)[i])]

FallbackEmbeddingWitness ==
    /\ op = "generateEmbedding"
    /\ arg[2]
    /\ arg[3] = "throw"
    /\ Len(ret[1].values) = 2
    /\ ret[1].values[1] # ret[1].values[2]
    /\ db # 0
    /\ cache # << >>

----------------------------------------------------------------------------
(* ScraperService.rateLimitDelay, followed from one await to the next *)

\* rateLimitDelay() up to its await: with the delay not yet over the call sleeps until
\* lastRequestTime + RATE_LIMIT_DELAY, otherwise it sets lastRequestTime and returns
RateLimitDelay(p) ==
    /\ calls[p].pc = "idle"
    /\ \A q \in Procs : calls[q].pc \in {"idle", "sleep"}
    /\ LET timeSinceLastRequest == now - lastRequestTime
       IN IF timeSinceLastRequest < RATE_LIMIT_DELAY
          THEN /\ calls' = [calls EXCEPT ![p] =
                               [Idle EXCEPT !.pc = "sleep",
                                            !.timestamp = now + (RATE_LIMIT_DELAY
                                                                 - timeSinceLastRequest)]]
               /\ UNCHANGED scraper
          ELSE /\ lastRequestTime' = now
               /\ released' = Append(released, now)
               /\ UNCHANGED calls
    /\ UNCHANGED <<cache, userQueries, svc, env, hist, txq, serverless, app>>

\* the timer of the call fires, at its time or later: this.lastRequestTime = Date.now()
TimerFired(p) ==
    /\ calls[p].pc = "sleep"
    /\ now >= calls[p].timestamp
    /\ calls' = [calls EXCEPT ![p] = Idle]
    /\ lastRequestTime' = now
    /\ released' = Append(released, now)
    /\ UNCHANGED <<cache, userQueries, svc, env, hist, txq, serverless, app>>

NextRate ==
    \/ Tick
    \/ \E p \in Procs : RateLimitDelay(p)
    \/ \E p \in Procs : TimerFired(p)

SpecRate == Init /\ [][NextRate]_vars

\* C27: any two requests released by rateLimitDelay() are released at least
\* RATE_LIMIT_DELAY apart, however many callers run at once.
RateLimited ==
    \A i, j \in 1..Len(released) :
        i < j => released[j] - released[i] >= RATE_LIMIT_DELAY

----------------------------------------------------------------------------
(* The vector-store function (netlify/functions/vector-store.js). The Map is *)
(* a sequence of [id, value] entries in insertion order. A request is an     *)
(* event [httpMethod, endpoint, body, query]; the answer is [statusCode,     *)
(* body].                                                                    *)

\* the records posted to the store: two that share an id, one of another framework
VectorRecord(id, framework, embedding) ==
    [id |-> id, framework |-> framework, embedding |-> embedding,
     metadata |-> [framework |-> framework]]

VectorRecords ==
    { VectorRecord(<<"1">>, <<"a">>, <<1, 2>>),
      VectorRecord(<<"1">>, <<"a">>, <<2, 1>>),
      VectorRecord(<<"2">>, <<"a", "_", "b">>, <<1, 2, 3>>) }

\* an element of the embeddings array that is null
NullItem == [null |-> TRUE]

\* a set that adds an entry whether or not the id is there
mapSetAppend(store, id, value) == Append(store, [id |-> id, value |-> value])

\* vectorStore.set(id, value): the value of an id that is there is replaced in place
mapSet(store, id, value) ==
    IF \E i \in 1..Len(store) : store[i].id = id
    THEN [i \in 1..Len(store) |-> IF store[i].id = id THEN [id |-> id, value |-> value]
                                  ELSE store[i]]
    ELSE Append(store, [id |-> id, value |-> value])

\* for (const embedding of embeddings) vectorStore.set(embedding.id, { ...embedding,
\* stored_at }); reading the id of a null element throws
RECURSIVE storeLoop(_, _, _)
storeLoop(store, embeddings, time) ==
    IF embeddings = << >> THEN [store |-> store, thrown |-> FALSE]
    ELSE IF Head(embeddings) = NullItem THEN [store |-> store, thrown |-> TRUE]
    ELSE storeLoop(mapSet(store, Head(embeddings).id,
                          [record |-> Head(embeddings), stored_at |-> time]),
                   Tail(embeddings), time)

response(statusCode, body) == [statusCode |-> statusCode, body |-> body]

\* the answer of the catch block of handler
internalError == response(500, [error |-> "Internal server error"])

\* handleStore(httpMethod, body); body.kind is "none" (no body), "invalid" (no JSON)
\* or "json", body.embeddings.kind "missing", "other" (no array) or "array"
handleStore(store, httpMethod, body, time) ==
    IF httpMethod # "POST"
    THEN [store |-> store, response |-> response(405, [error |-> "Method not allowed"])]
    ELSE IF body.kind = "invalid" THEN [store |-> store, response |-> internalError]
    ELSE IF body.kind = "none" \/ body.embeddings.kind # "array"
    THEN [store |-> store, response |-> response(400, [error |-> "Invalid embeddings data"])]
    ELSE LET done == storeLoop(store, body.embeddings.items, time)
         IN IF done.thrown THEN [store |-> done.store, response |-> internalError]
            ELSE [store |-> done.store,
                  response |-> response(200, [count |-> Len(body.embeddings.items)])]

\* calculateCosineSimilarity(vecA, vecB): 0 when the lengths differ, else the cosine,
\* kept as the pair it is computed from
calculateCosineSimilarity(vecA, vecB) ==
    IF vecA.length # Len(vecB) THEN 0 ELSE [cosine |-> <<vecA, vecB>>]

\* the entries of the store a search looks at
RECURSIVE ofFramework(_, _)
ofFramework(store, framework) ==
    IF store = << >> THEN << >>
    ELSE (IF framework # << >> /\ Head(store).value.record.framework # framework
          THEN << >> ELSE <<Head(store)>>) \o ofFramework(Tail(store), framework)

\* handleSearch(httpMethod, queryStringParameters); query.query and query.framework are
\* << >> when missing, query.limit is a number (the default is 10). With stored
\* vectors shorter than 384 every score is 0 and the sort keeps the insertion order.
handleSearch(store, httpMethod, query) ==
    IF httpMethod # "GET" THEN response(405, [error |-> "Method not allowed"])
    ELSE IF query.query = << >> THEN response(400, [error |-> "Query parameter required"])
    ELSE LET queryEmbedding == generateSimpleEmbedding(query.query)
             found == ofFramework(store, query.framework)
             results == [i \in 1..Len(found) |->
                            [id |-> found[i].id,
                             score |-> calculateCosineSimilarity(
                                           queryEmbedding, found[i].value.record.embedding),
                             metadata |-> found[i].value.record.metadata]]
         IN response(200, [matches |-> slice0(results, query.limit),
                           total |-> Len(results), query |-> query.query])

\* handleEmbed(httpMethod, body); body.text is << >> when missing
handleEmbed(httpMethod, body) ==
    IF httpMethod # "POST" THEN response(405, [error |-> "Method not allowed"])
    ELSE IF body.kind = "invalid" THEN internalError
    ELSE IF body.kind = "none" \/ body.text = << >>
    THEN response(400, [error |-> "Text parameter required"])
    ELSE response(200, [embedding |-> generateSimpleEmbedding(body.text),
                        dimensions |-> generateSimpleEmbedding(body.text).length])

\* handleHealth()
handleHealth(store) == response(200, [status |-> "healthy", vectorCount |-> Len(store)])

\* handler(event, context)
handler(store, event, time) ==
    IF event.httpMethod = "OPTIONS" THEN [store |-> store, response |-> response(200, << >>)]
    ELSE CASE event.endpoint = "store" ->
                 handleStore(store, event.httpMethod, event.body, time)
           [] event.endpoint = "search" ->
                 [store |-> store,
                  response |-> handleSearch(store, event.httpMethod, event.query)]
           [] event.endpoint = "embed" ->
                 [store |-> store, response |-> handleEmbed(event.httpMethod, event.body)]
           [] event.endpoint = "health" ->
                 [store |-> store, response |-> handleHealth(store)]
           [] OTHER ->
                 [store |-> store, response |-> response(404, [error |-> "Endpoint not found"])]

\* the longest embeddings array posted
MaxItems == 2

\* the requests made
NoBody == [kind |-> "none", embeddings |-> [kind |-> "missing", items |-> << >>],
           text |-> << >>]
NoQuery == [query |-> << >>, framework |-> << >>, limit |-> 10]

Bodies ==
    { NoBody, [NoBody EXCEPT !.kind = "invalid"], [NoBody EXCEPT !.kind = "json"],
      [NoBody EXCEPT !.kind = "json", !.embeddings = [kind |-> "other", items |-> << >>]],
      [NoBody EXCEPT !.kind = "json", !.text = <<"X", " ", "y">>] }
    \cup { [NoBody EXCEPT !.kind = "json", !.embeddings = [kind |-> "array", items |-> items]] :
             items \in UNION { [1..n -> VectorRecords \cup {NullItem}] : n \in 0..MaxItems } }

QueryParameters ==
    { NoQuery } \cup { [query |-> <<"X">>, framework |-> f, limit |-> l] :
                         f \in { << >>, <<"a">> }, l \in {1, 10} }

Events ==
    { [httpMethod |-> m, endpoint |-> e, body |-> b, query |-> q] :
        m \in {"OPTIONS", "GET", "POST"},
        e \in {"store", "search", "embed", "health", "other"},
        b \in Bodies, q \in QueryParameters }

\* a request that carries what its endpoint reads
wellFormedEvent(event) ==
    /\ (event.endpoint \in {"store", "embed"} /\ event.httpMethod = "POST")
          \/ event.body = NoBody
    /\ (event.endpoint = "search" /\ event.httpMethod = "GET") \/ event.query = NoQuery
    /\ event.endpoint = "embed" => event.body.embeddings.kind = "missing"
    /\ event.endpoint = "store" => event.body.text = << >>

Handler(event) ==
    /\ wellFormedEvent(event)
    /\ LET done == handler(vectorStore, event, now)
       IN /\ vectorStore' = done.store
          /\ Done([Cur EXCEPT !.ret = <<done.response>>], "handler", <<event>>)
    /\ UNCHANGED <<env, scraper, app>>

\* the cache calls made on the keys of embeddings
EmbeddingKeys == { embeddingKey(e.id) : e \in Embeddings }

NextVectorRecords ==
    \/ CallInit
    \/ \E embeddings \in EmbeddingLists, post \in ProbeResults :
          StoreVectorEmbeddings(embeddings, post)
    \/ \E key \in EmbeddingKeys : CacheGet(key)
    \/ \E event \in Events : Handler(event)

SpecVectorRecords == Init /\ [][NextVectorRecords]_vars

isEmbeddingKey(key) == startsWith(key, <<"e", "m", "b", "e", "d", "d", "i", "n", "g", "_">>)

\* C28: a vector record that is stored, in the vector service or in the cache under
\* embedding_{id}, is still stored and is the same after every store, search, embed
\* and cache operation.
VectorRecordsImmutable ==
    [][ /\ \A i \in 1..Len(vectorStore) :
              \E j \in 1..Len(vectorStore') : vectorStore'[j] = vectorStore[i]
        /\ \A key \in DOMAIN cache :
              isEmbeddingKey(key) =>
                 /\ key \in DOMAIN cache'
                 /\ cache'[key].value = cache[key].value ]_vars

----------------------------------------------------------------------------
(* The actions of the app store. Every set(partial) merges the partial state and  *)
(* the persist middleware then writes the item.                                    *)

Set(name, args, partial) ==
    /\ appState' = merge(appState, partial)
    /\ storage' = <<stringify(partialize(appState'))>>
    /\ Done(Cur, name, args)
    /\ UNCHANGED <<env, scraper, serverless>>

\* the values passed to the setters
StoreTexts == { << >>, <<"\"", "\\">> }
InputModes == { <<"voice">>, <<"form">> }
Agents == { [id |-> <<"1">>, name |-> <<"X">>] }
AgentUpdates == { [name |-> <<"\"">>] }
WorkflowSteps == { << >>, <<[id |-> <<"1">>, name |-> <<"X">>]>> }
Services == { <<"g">> }
ServiceKeys == { <<"k">> }

\* the most agents added
MaxAgents == 1

ToggleTheme == Set("toggleTheme", << >>, [isDarkMode |-> ~appState.isDarkMode])

SetProjectName(name) == Set("setProjectName", <<name>>, [projectName |-> name])

SetSelectedFramework(framework) ==
    Set("setSelectedFramework", <<framework>>, [selectedFramework |-> framework])

\* the id of a new agent is a fresh generateSecureId()
AddAgent(agent) ==
    /\ Len(appState.agents) < MaxAgents
    /\ \A i \in 1..Len(appState.agents) : appState.agents[i].id # agent.id
    /\ Set("addAgent", <<agent>>, [agents |-> Append(appState.agents, agent)])

UpdateAgent(id, updates) ==
    Set("updateAgent", <<id, updates>>,
        [agents |-> [i \in 1..Len(appState.agents) |->
                        IF appState.agents[i].id = id
                        THEN merge(appState.agents[i], updates)
                        ELSE appState.agents[i]]])

RemoveAgent(id) ==
    Set("removeAgent", <<id>>,
        [agents |-> SelectSeq(appState.agents, LAMBDA agent : agent.id # id)])

SetWorkflowSteps(steps) == Set("setWorkflowSteps", <<steps>>, [workflowSteps |-> steps])

SetInputMode(mode) == Set("setInputMode", <<mode>>, [inputMode |-> mode])

SetIsListening(listening) ==
    Set("setIsListening", <<listening>>, [isListening |-> listening])

SetVoiceTranscript(transcript) ==
    Set("setVoiceTranscript", <<transcript>>, [voiceTranscript |-> transcript])

SetRagDataLastUpdated(date) ==
    Set("setRagDataLastUpdated", <<date>>, [ragDataLastUpdated |-> date])

SetApiKey(service, key) ==
    Set("setApiKey", <<service, key>>,
        [apiKeys |-> [s \in DOMAIN appState.apiKeys \cup {service} |->
                         IF s = service THEN key ELSE appState.apiKeys[s]]])

\* a reset that leaves the input mode as it is
sessionDefaultsKeepMode ==
    [selectedFramework |-> << >>, isListening |-> FALSE, voiceTranscript |-> << >>]

\* the object that resetSessionState passes to set
sessionDefaults ==
    [selectedFramework |-> << >>, inputMode |-> <<"form">>, isListening |-> FALSE,
     voiceTranscript |-> << >>]

ResetSessionState == Set("resetSessionState", << >>, sessionDefaults)

NextAppStore ==
    \/ NewSession
    \/ ToggleTheme
    \/ \E name \in StoreTexts : SetProjectName(name)
    \/ \E framework \in StoreTexts : SetSelectedFramework(framework)
    \/ \E agent \in Agents : AddAgent(agent)
    \/ \E agent \in Agents, updates \in AgentUpdates : UpdateAgent(agent.id, updates)
    \/ \E agent \in Agents : RemoveAgent(agent.id)
    \/ \E steps \in WorkflowSteps : SetWorkflowSteps(steps)
    \/ \E mode \in InputModes : SetInputMode(mode)
    \/ \E listening \in BOOLEAN : SetIsListening(listening)
    \/ \E transcript \in StoreTexts : SetVoiceTranscript(transcript)
    \/ \E date \in StoreTexts : SetRagDataLastUpdated(date)
    \/ \E service \in Services, key \in ServiceKeys : SetApiKey(service, key)
    \/ ResetSessionState

\* the store reads neither the credentials nor IndexedDB: the sessions start in one
\* environment
InitAppStore == Init /\ creds /\ storeAvailable

SpecAppStore == InitAppStore /\ [][NextAppStore]_vars

\* C29: when the page is reloaded, selectedFramework, inputMode, isListening and
\* voiceTranscript start again at '', 'form', false and '' whatever they were, and
\* isDarkMode, projectName, agents, workflowSteps, ragDataLastUpdated and apiKeys
\* have the values they had before the reload.
PersistencePartition ==
    [][ sessions' # sessions
        => /\ appState'.selectedFramework = << >>
           /\ appState'.inputMode = <<"form">>
           /\ appState'.isListening = FALSE
           /\ appState'.voiceTranscript = << >>
           /\ appState'.isDarkMode = appState.isDarkMode
           /\ appState'.projectName = appState.projectName
           /\ appState'.agents = appState.agents
           /\ appState'.workflowSteps = appState.workflowSteps
           /\ appState'.ragDataLastUpdated = appState.ragDataLastUpdated
           /\ appState'.apiKeys = appState.apiKeys ]_vars

\* a page has been reloaded with every persisted field away from its initial value
PersistencePartitionWitness ==
    /\ op = "new"
    /\ sessions > 1
    /\ storage # << >>
    /\ appState.isDarkMode
    /\ appState.projectName = <<"\"", "\\">>
    /\ Len(appState.agents) = 1
    /\ appState.agents[1].name = <<"\"">>
    /\ appState.workflowSteps # << >>
    /\ appState.ragDataLastUpdated # << >>
    /\ DOMAIN appState.apiKeys # {}
    /\ appState.selectedFramework = << >>

----------------------------------------------------------------------------
(* ensureCacheSpace, seen through the cacheSet that calls it with the size of   *)
(* the entry it writes                                                          *)

\* C30: ensureCacheSpace(n) deletes nothing when cacheSize + n <= MAX_CACHE_SIZE;
\* otherwise the deleted entries are, in ascending order of score, the shortest
\* prefix of that order after which cacheSize - freed + n <= MAX_CACHE_SIZE (or
\* all the entries if there is none), and cacheSize goes down by the sum of their
\* sizes (cacheSet then adds n).
EnsureCacheSpacePrefix ==
    [][ (Called("cacheSet") /\ db # 0 /\ thrown' = "none")
        => LET key == arg'[1]
               n == cache'[key].size
               count == Len(evicted')
               freed(j) == SumSeq([i \in 1..j |-> evicted'[i].size])
               gone == { evicted'[i].key : i \in 1..count }
           IN /\ cacheSize + n <= MAX_CACHE_SIZE
                    => /\ evicted' = << >>
                       /\ DOMAIN cache' = DOMAIN cache \cup {key}
                       /\ cacheSize' = cacheSize + n
              /\ cacheSize + n > MAX_CACHE_SIZE
                    => /\ \A i \in 1..count :
                             /\ evicted'[i].key \in DOMAIN cache
                             /\ evicted'[i].size = cache[evicted'[i].key].size
                             /\ evicted'[i].timestamp = cache[evicted'[i].key].timestamp
                             /\ evicted'[i].accessCount = cache[evicted'[i].key].accessCount
                       /\ \A i, j \in 1..count :
                             i < j => /\ evicted'[i].key # evicted'[j].key
                                      /\ score(evicted'[i]) <= score(evicted'[j])
                       /\ \A k \in DOMAIN cache \ gone :
                             \A i \in 1..count : score(evicted'[i]) <= score(cache[k])
                       /\ \A j \in 0..(count - 1) :
                             cacheSize - freed(j) + n > MAX_CACHE_SIZE
                       /\ \/ cacheSize - freed(count) + n <= MAX_CACHE_SIZE
                          \/ gone = DOMAIN cache
                       /\ DOMAIN cache' = (DOMAIN cache \ gone) \cup {key}
                       /\ cacheSize' = cacheSize - freed(count) + n ]_vars

\* a cacheSet whose ensureCacheSpace deleted an entry and spared another
EnsureCacheSpaceWitness ==
    /\ op = "cacheSet"
    /\ thrown = "none"
    /\ Len(evicted) >= 1
    /\ \E k \in DOMAIN cache : k # arg[1]

----------------------------------------------------------------------------
(* The batches of storeFrameworkData *)

\* the rows of the upsert requests of a call, in request order
RECURSIVE rowsSent(_)
rowsSent(requests) ==
    IF requests = << >> THEN << >> ELSE Head(requests).rows \o rowsSent(Tail(requests))

\* row is item with its content compressed and compressedSize the length of that
isCompressedRow(row, item) ==
    /\ row.content = compressWithBrotli(item.content)
    /\ row.compressedSize = Len(row.content)
    /\ [row EXCEPT !.content = item.content, !.compressedSize = item.compressedSize] = item

\* the requests carry consecutive batches from the start of data: 1 to batchSize
\* rows each, full but for the one that ends data
consecutiveBatches(requests, data) ==
    /\ \A b \in 1..Len(requests) :
          /\ Len(requests[b].rows) \in 1..batchSize
          /\ Len(requests[b].rows) < batchSize => b * batchSize >= Len(data)
    /\ Len(rowsSent(requests)) <= Len(data)
    /\ \A k \in 1..Len(rowsSent(requests)) : isCompressedRow(rowsSent(requests)[k], data[k])

\* C31 (as claimed): a storeFrameworkData call with a remote client sends its whole
\* input, cut into consecutive batches of 1 to batchSize records, each record once
\* and compressed.
BatchesCoverInput ==
    [][ (Called("storeFrameworkData") /\ supabase)
        => /\ consecutiveBatches(sent', arg'[1])
           /\ Len(rowsSent(sent')) = Len(arg'[1]) ]_vars

\* C31 (amended): the requests of a storeFrameworkData call with a remote client
\* carry consecutive batches of 1 to batchSize records from the start of the input,
\* each record once and compressed; they cover the whole input when no upsert
\* throws and no cache write of the fallback fails, and stop with the batch at
\* which that happens otherwise.
BatchesArePrefix ==
    [][ (Called("storeFrameworkData") /\ supabase)
        => /\ consecutiveBatches(sent', arg'[1])
           /\ ((\A b \in 1..Len(sent') : sent'[b].result # "throw") /\ thrown' = "none")
                 => Len(rowsSent(sent')) = Len(arg'[1])
           /\ \A b \in 1..(Len(sent') - 1) : sent'[b].result # "throw" ]_vars

\* a call of three records has sent a full batch and a shorter one
BatchesWitness ==
    /\ op = "storeFrameworkData"
    /\ thrown = "none"
    /\ Len(arg[1]) = 3
    /\ Len(sent) = 2
    /\ Len(sent[1].rows) = 2
    /\ Len(sent[2].rows) = 1

----------------------------------------------------------------------------
(* init() followed await by await. calls[p].pc is "tables" while              *)
(* createTablesIfNotExist runs, "opening" while openDB runs, "calc" while the  *)
(* getAll of calculateCacheSize runs, and "ready" when the caller goes on,     *)
(* calls[p].i being the handle this.db it goes on with.                        *)

\* no init() is in flight
quiet == \A q \in Procs : calls[q].pc \in {"idle", "ready"}

\* a caller reaches init(): directly, or (lazy) through 'if (!this.db) await
\* this.init()'. init() up to its first await: the guard of line 71, the client
\* (lines 81-82), and the call of createTablesIfNotExist or of openDB
InitStart(p, lazy) ==
    /\ calls[p].pc = "idle"
    /\ IF (lazy /\ db # 0) \/ initialized
       THEN /\ calls' = [calls EXCEPT ![p] = [Idle EXCEPT !.pc = "ready", !.i = db]]
            /\ UNCHANGED supabase
       ELSE /\ calls' = [calls EXCEPT ![p] =
                            [Idle EXCEPT !.pc = IF creds THEN "tables" ELSE "opening"]]
            /\ supabase' = (supabase \/ creds)
    /\ UNCHANGED <<cache, userQueries, db, cacheSize, initialized, opens, env, hist, txq,
                   rest>>

\* createTablesIfNotExist() resolves (line 85); openDB is called (line 91)
TablesDone(p) ==
    /\ calls[p].pc = "tables"
    /\ calls' = [calls EXCEPT ![p].pc = "opening"]
    /\ UNCHANGED <<cache, userQueries, svc, env, hist, txq, rest>>

\* openDB resolves or rejects (line 91); with a handle, calculateCacheSize asks
\* for the entries (line 568)
OpenDone(p) ==
    /\ calls[p].pc = "opening"
    /\ IF storeAvailable
       THEN /\ db' = opens + 1
            /\ opens' = opens + 1
            /\ calls' = [calls EXCEPT ![p].pc = "calc"]
       ELSE /\ calls' = [calls EXCEPT ![p] = Idle]
            /\ UNCHANGED <<db, opens>>
    /\ UNCHANGED <<cache, userQueries, supabase, cacheSize, initialized, env, hist, txq,
                   rest>>

\* getAll('cache') resolves (line 568): the total is assigned (line 569), the
\* service is initialized (line 112) and the caller goes on with this.db
CalcDone(p) ==
    /\ calls[p].pc = "calc"
    /\ cacheSize' = totalSize(cache)
    /\ initialized' = TRUE
    /\ calls' = [calls EXCEPT ![p].pc = "ready", ![p].i = db]
    /\ UNCHANGED <<cache, userQueries, db, supabase, opens, env, hist, txq, rest>>

\* the caller is done
Return(p) ==
    /\ calls[p].pc = "ready"
    /\ calls' = [calls EXCEPT ![p] = Idle]
    /\ UNCHANGED <<cache, userQueries, svc, env, hist, txq, rest>>

NextInitRace ==
    \/ NewSession
    \/ \E p \in Procs, lazy \in BOOLEAN : InitStart(p, lazy)
    \/ \E p \in Procs : TablesDone(p)
    \/ \E p \in Procs : OpenDone(p)
    \/ \E p \in Procs : CalcDone(p)
    \/ \E p \in Procs : Return(p)
    \/ \E key \in SessionKeys, value \in PlainValues : quiet /\ CacheSet(key, value)

SpecInitRace == Init /\ [][NextInitRace]_vars

\* C32: however the callers that reach init() are interleaved, the local store is
\* opened once per session (no open when this.db holds a handle), cacheSize is
\* recalculated once (no recalculation by an initialized service), and the callers
\* that go on do so with the same handle.
SingleInitialization ==
    [][ /\ opens' # opens => db = 0
        /\ (\E p \in Procs : calls[p].pc = "calc" /\ calls'[p].pc = "ready")
              => ~initialized
        /\ \A p, q \in Procs :
              (calls'[p].pc = "ready" /\ calls'[q].pc = "ready")
                 => calls'[p].i = calls'[q].i ]_vars

----------------------------------------------------------------------------
(* cacheGet followed await by await on an open store, with whole cacheSet      *)
(* calls between its read and its write-back. calls[p].pc is "get" while the   *)
(* read runs and "getput" while the put of the bumped entry runs; calls[p]     *)
(* holds the entry that was read, its accessCount in calls[p].i.               *)

\* cacheGet(key) up to its first await on an open store: the get request (line 470)
BeginCacheGet(p, key) ==
    /\ calls[p].pc = "idle"
    /\ quiet
    /\ db # 0
    /\ key \in DOMAIN cache => cache[key].accessCount < MaxAccess
    /\ calls' = [calls EXCEPT ![p] = [Idle EXCEPT !.pc = "get", !.key = key]]
    /\ UNCHANGED <<cache, userQueries, svc, env, hist, txq, rest>>

\* the get resolves (line 470): null is returned (line 471), or the entry is bumped
\* (lines 474-475) and put back (line 476)
GetDone(p) ==
    /\ calls[p].pc = "get"
    /\ IF calls[p].key \notin DOMAIN cache
       THEN calls' = [calls EXCEPT ![p] = Idle]
       ELSE LET entry == cache[calls[p].key]
            IN calls' = [calls EXCEPT ![p].pc = "getput",
                                      ![p].value = entry.value,
                                      ![p].size = entry.size,
                                      ![p].timestamp = now,
                                      ![p].i = entry.accessCount + 1]
    /\ UNCHANGED <<cache, userQueries, svc, env, hist, txq, rest>>

\* the put of the bumped entry resolves (line 476) and the value read is returned
GetPutDone(p) ==
    /\ calls[p].pc = "getput"
    /\ cache' = put(cache, calls[p].key,
                    [value |-> calls[p].value, timestamp |-> calls[p].timestamp,
                     size |-> calls[p].size, accessCount |-> calls[p].i])
    /\ calls' = [calls EXCEPT ![p] = Idle]
    /\ UNCHANGED <<userQueries, svc, env, hist, txq, rest>>

\* the running total up to which cacheSet calls are followed
MaxTotal == 6

NextGetRace ==
    \/ CallInit
    \/ \E key \in SessionKeys, value \in PlainValues :
          cacheSize <= MaxTotal /\ CacheSet(key, value)
    \/ \E p \in Procs, key \in SessionKeys : BeginCacheGet(p, key)
    \/ \E p \in Procs : GetDone(p)
    \/ \E p \in Procs : GetPutDone(p)

SpecGetRace == Init /\ [][NextGetRace]_vars

\* the write-back of the cacheGet of p completes in this step
writeBack(p) == calls[p].pc = "getput" /\ calls'[p].pc = "idle"

\* C33: the write-back of a cacheGet(k) never replaces a newer value: whatever
\* cacheSet(k, v2) completed since the read, the entry under k holds the same value
\* after the write-back as before it.
NoLostUpdate ==
    [][ \A p \in Procs :
           (writeBack(p) /\ calls[p].key \in DOMAIN cache)
              => cache'[calls[p].key].value = cache[calls[p].key].value ]_vars

\* C34: the write-back of a cacheGet(k) does not put back an entry that an eviction
\* deleted since the read, and leaves every stored entry counted: the difference
\* between cacheSize and the sum of the stored sizes is what it was.
EvictionIsFinal ==
    [][ \A p \in Procs :
           writeBack(p)
              => /\ calls[p].key \notin DOMAIN cache => calls[p].key \notin DOMAIN cache'
                 /\ cacheSize' - totalSize(cache') = cacheSize - totalSize(cache) ]_vars


----------------------------------------------------------------------------
(* Framework isolation of the cache tier *)

\* the call was answered from the cache tier: the remote did not serve rows and a
\* cached copy was found under the prefix of the tag
servedFromCache ==
    /\ op = "getFrameworkData"
    /\ thrown = "none"
    /\ ~supabase \/ arg[3] \in {"error", "throw"}
    /\ db # 0
    /\ Len(cachedData(cache, arg[1])) > 0

\* C35: every record that getFrameworkData(tag, limit) returns from the cache tier
\* has framework = tag, also for tags and ids with underscores and for a tag that is
\* a prefix of another tag.
CacheTierIsolation ==
    servedFromCache => \A i \in 1..Len(ret) : ret[i].framework = arg[1]


----------------------------------------------------------------------------
(* ScraperService: getScrapingStatus and scrapeAndStoreFrameworkData. The      *)
(* records of the model do not carry lastUpdated: the date of a record that    *)
(* the catalog or the cache returns is an input of the call (updated), and the *)
(* date of a placeholder record is the time of the call (new Date()).          *)
(* scrapeAndStoreFrameworkData is followed up to the await of                  *)
(* scrapeFrameworkData (calls[p].pc = "scraping", calls[p].key the framework)  *)
(* and from there to its end.                                                  *)

\* 7 days, in ticks of the clock
STALE_DAYS == 1

\* data[0].lastUpdated
lastUpdatedOf(data, framework, updated, time) ==
    IF data = getMockFrameworkData(framework) THEN time ELSE updated

\* getScrapingStatus(framework); lastUpdate is << >> for null
getScrapingStatus(st, framework, select, read, updated, time) ==
    LET r == getFrameworkData(st, framework, 1, select, read)
        data == r.ret
        lastUpdate == lastUpdatedOf(data, framework, updated, time)
        daysSinceUpdate == time - lastUpdate
    IN IF r.thrown # "none" THEN r
       ELSE IF Len(data) = 0
            THEN [r EXCEPT !.ret = << [lastUpdate |-> << >>, itemCount |-> 0,
                                       isStale |-> TRUE] >>]
            ELSE [r EXCEPT !.ret = << [lastUpdate |-> <<lastUpdate>>,
                                       itemCount |-> Len(data),
                                       isStale |-> daysSinceUpdate > STALE_DAYS] >>]

\* existingData.length > 0 && daysSinceUpdate < 7
isRecent(data, framework, updated, time) ==
    /\ Len(data) > 0
    /\ time - lastUpdatedOf(data, framework, updated, time) < STALE_DAYS

\* the catch block of scrapeAndStoreFrameworkData: the data of
\* getFrameworkData(framework) if there is any, the error otherwise
scrapeFallback(st, framework, error, select, read) ==
    LET r == getFrameworkData([st EXCEPT !.thrown = "none"], framework, 100, select, read)
    IN IF r.thrown # "none" THEN r
       ELSE IF Len(r.ret) > 0 THEN r
       ELSE [r EXCEPT !.thrown = error]

\* generateAndStoreEmbeddings up to storeVectorEmbeddings: one chunk per record (the
\* contents are shorter than 1000 characters), id `${data.id}-chunk-${i}`
chunkEmbeddings(st, scrapedData, apiKey, gemini) ==
    [i \in 1..Len(scrapedData) |->
        VectorEmbedding(scrapedData[i].id \o <<"-", "c", "h", "u", "n", "k", "-", "0">>,
                        generateEmbedding(st, scrapedData[i].content \o <<".">>,
                                          apiKey, gemini).ret[1].values)]

\* await dbService.storeFrameworkData(scrapedData); await
\* this.generateAndStoreEmbeddings(scrapedData): stored is the state after both (a
\* failure of the first is the state the second is not run in)
finishScrape(st, stored, framework, scraped, select, read) ==
    IF scraped.kind = "throw" \/ (Len(scraped.data) > 0 /\ stored.thrown # "none")
    THEN scrapeFallback(IF scraped.kind = "throw" THEN st ELSE stored, framework,
                        IF scraped.kind = "throw" THEN "RateLimit" ELSE stored.thrown,
                        select, read)
    ELSE IF Len(scraped.data) = 0 THEN st
    ELSE [stored EXCEPT !.ret = scraped.data]

\* scrapeAndStoreFrameworkData from the result of scrapeFrameworkData on: scraped is
\* kind "ok" with the records, or "throw" (the rate limit error)
storeScraped(st, framework, scraped, results, apiKey, gemini, post, select, read) ==
    finishScrape(st,
                 storeVectorEmbeddings(storeFrameworkData(st, scraped.data, results),
                                       chunkEmbeddings(st, scraped.data, apiKey, gemini),
                                       post),
                 framework, scraped, select, read)

GetScrapingStatus(framework, select, updated) ==
    /\ Done(getScrapingStatus(Cur, framework, select, "ok", updated, now),
            "getScrapingStatus", <<framework, select>>)
    /\ UNCHANGED <<env, rest>>

\* scrapeAndStoreFrameworkData(framework, forceUpdate) up to its return with the
\* existing data, or up to the call of scrapeFrameworkData (getAll('cache') of the
\* nested getFrameworkData succeeds)
ScrapeStart(p, framework, forceUpdate, select, updated) ==
    /\ \A q \in Procs : calls[q].pc = "idle"
    /\ LET existing == getFrameworkData(Cur, framework, 10, select, "ok")
       IN IF ~forceUpdate /\ isRecent(existing.ret, framework, updated, now)
          THEN /\ Done(existing, "scrapeAndStoreFrameworkData", <<framework, select>>)
               /\ UNCHANGED <<env, rest>>
          ELSE /\ calls' = [calls EXCEPT ![p] = [Idle EXCEPT !.pc = "scraping",
                                                             !.key = framework]]
               /\ UNCHANGED <<cache, userQueries, svc, env, hist, txq, rest>>

\* scrapeFrameworkData has returned or thrown: the rest of the call
ScrapeDone(p, scraped, results, apiKey, gemini, post, fallback) ==
    /\ calls[p].pc = "scraping"
    /\ \E st \in { storeScraped(Cur, calls[p].key, scraped, results, apiKey, gemini, post,
                                fallback, "ok") } :
          /\ cache' = st.cache
          /\ userQueries' = st.userQueries
          /\ db' = st.db
          /\ supabase' = st.supabase
          /\ cacheSize' = st.cacheSize
          /\ initialized' = st.initialized
          /\ opens' = st.opens
          /\ op' = "scrapeAndStoreFrameworkData"
          /\ inits' = 0
          /\ arg' = <<calls[p].key, scraped>>
          /\ ret' = st.ret
          /\ thrown' = st.thrown
          /\ evicted' = st.evicted
          /\ sent' = st.sent
    /\ calls' = [calls EXCEPT ![p] = Idle]
    /\ UNCHANGED <<env, txq, rest>>

\* what scrapeFrameworkData may give for a framework
ScrapeResults(framework) ==
    { [kind |-> "throw", data |-> << >>], [kind |-> "ok", data |-> << >>] }
    \cup { [kind |-> "ok", data |-> <<r>>] :
              r \in { x \in Records : x.framework = framework /\ x.id = <<"1">> } }

\* what a remote select may answer for a framework: no rows, an error, or the row of
\* a record of the framework
Selects(framework) ==
    { [kind |-> "rows", rows |-> << >>], [kind |-> "error", rows |-> << >>] }
    \cup { [kind |-> "rows", rows |-> <<compressed(r)>>] :
              r \in { x \in Records : x.framework = framework /\ x.id = <<"1">> } }

\* what the remote select of the catch block may answer
FallbackResponses(framework, scraped) ==
    IF scraped.kind = "throw" THEN Selects(framework) ELSE { NoResponse }

NextScraper ==
    \/ (now <= STALE_DAYS /\ Tick)
    \/ CallInit
    \/ \E framework \in Tags : \E select \in Selects(framework), updated \in 0..now :
          GetScrapingStatus(framework, select, updated)
    \/ \E framework \in Tags, forceUpdate \in BOOLEAN :
          \E select \in Selects(framework), updated \in 0..now :
             ScrapeStart(1, framework, forceUpdate, select, updated)
    \/ \E p \in Procs : \E scraped \in ScrapeResults(calls[p].key) :
          \E results \in BatchResults(scraped.data), post \in {"ok", "error"},
             fallback \in FallbackResponses(calls[p].key, scraped) :
             ScrapeDone(p, scraped, results, TRUE,
                        [kind |-> "ok", values |-> <<1, 2>>], post, fallback)

\* the local store can be opened in every session
InitScraper == Init /\ storeAvailable

SpecScraper == InitScraper /\ [][NextScraper]_vars

\* neither the remote catalog nor the cache holds a record of the framework
noRecords(framework, select) ==
    /\ ~supabase \/ (select.kind = "rows" /\ select.rows = << >>)
    /\ db = 0 \/ Len(cachedData(cache, framework)) = 0

\* C36: with no record of the framework in the remote catalog and none in the
\* cache, getScrapingStatus(framework) reports lastUpdate null, itemCount 0 and
\* isStale true, and scrapeAndStoreFrameworkData(framework, false) does not return
\* the existing data but goes on to scrape.
PlaceholdersAreNotData ==
    [][ /\ (op' = "getScrapingStatus" /\ thrown' = "none" /\ noRecords(arg'[1], arg'[2]))
            => ret' = << [lastUpdate |-> << >>, itemCount |-> 0, isStale |-> TRUE] >>
        /\ ~ ( /\ op' = "scrapeAndStoreFrameworkData"
                /\ calls' = calls
                /\ thrown' = "none"
                /\ noRecords(arg'[1], arg'[2]) ) ]_vars


----------------------------------------------------------------------------
(* resetSessionState *)

\* C37: resetSessionState() sets selectedFramework to '', inputMode to 'form',
\* isListening to false and voiceTranscript to '', leaves isDarkMode, projectName,
\* agents, workflowSteps, ragDataLastUpdated and apiKeys as they were, and a second
\* reset changes nothing.
ResetIsSessionOnly ==
    [][ op' = "resetSessionState"
        => /\ appState'.selectedFramework = << >>
           /\ appState'.inputMode = <<"form">>
           /\ appState'.isListening = FALSE
           /\ appState'.voiceTranscript = << >>
           /\ appState'.isDarkMode = appState.isDarkMode
           /\ appState'.projectName = appState.projectName
           /\ appState'.agents = appState.agents
           /\ appState'.workflowSteps = appState.workflowSteps
           /\ appState'.ragDataLastUpdated = appState.ragDataLastUpdated
           /\ appState'.apiKeys = appState.apiKeys
           /\ merge(appState', sessionDefaults) = appState'
           /\ <<stringify(partialize(merge(appState', sessionDefaults)))>> = storage' ]_vars

\* a reset has run in a store whose persisted fields are all away from their
\* initial values
ResetIsSessionOnlyWitness ==
    /\ op = "resetSessionState"
    /\ appState.isDarkMode
    /\ appState.projectName = <<"\"", "\\">>
    /\ Len(appState.agents) = 1
    /\ appState.workflowSteps # << >>
    /\ appState.ragDataLastUpdated # << >>
    /\ DOMAIN appState.apiKeys # {}
    /\ appState.inputMode = <<"form">>
    /\ storage # << >>


----------------------------------------------------------------------------
(* The protocol of the vector-store function *)

\* the ids of the entries of the Map
idsOf(store) == { store[i].id : i \in 1..Len(store) }

\* the ids of the elements of a posted array up to its first null element
idsPosted(items) ==
    { items[i].id : i \in { n \in 1..Len(items) : \A j \in 1..n : items[j] # NullItem } }

\* a POST to the store endpoint whose body carries an embeddings array
isStoreRequest(event) ==
    /\ event.httpMethod = "POST"
    /\ event.endpoint = "store"
    /\ event.body.kind = "json"
    /\ event.body.embeddings.kind = "array"

\* the fixed status of a request, 0 for the requests that have none
fixedStatus(event) ==
    IF event.httpMethod = "OPTIONS" THEN 200
    ELSE IF event.endpoint \notin {"store", "search", "embed", "health"} THEN 404
    ELSE IF event.endpoint \in {"store", "embed"} /\ event.httpMethod # "POST" THEN 405
    ELSE IF event.endpoint = "search" /\ event.httpMethod # "GET" THEN 405
    ELSE IF event.endpoint = "store" /\ event.body.kind # "invalid"
            /\ event.body.embeddings.kind # "array" THEN 400
    ELSE IF event.endpoint = "search" /\ event.query.query = << >> THEN 400
    ELSE IF event.endpoint = "embed" /\ event.body.kind # "invalid"
            /\ event.body.text = << >> THEN 400
    ELSE 0

\* C38: vectorStore changes only on a POST to the store endpoint whose body carries
\* an embeddings array, and then gains the ids posted and loses none; every other
\* request leaves it unchanged; OPTIONS is answered 200, an unknown endpoint 404, a
\* wrong method for store, search or embed 405, missing or non-array embeddings, a
\* missing query or a missing text 400; health reports as vectorCount the number of
\* distinct ids in the store.
HandlerProtocol ==
    [][ op' = "handler"
        => /\ vectorStore' # vectorStore => isStoreRequest(arg'[1])
           /\ idsOf(vectorStore') =
                 idsOf(vectorStore) \cup (IF isStoreRequest(arg'[1])
                                          THEN idsPosted(arg'[1].body.embeddings.items)
                                          ELSE {})
           /\ fixedStatus(arg'[1]) # 0 => ret'[1].statusCode = fixedStatus(arg'[1])
           /\ (arg'[1].httpMethod # "OPTIONS" /\ arg'[1].endpoint = "health")
                 => /\ ret'[1].statusCode = 200
                    /\ ret'[1].body.vectorCount = Cardinality(idsOf(vectorStore')) ]_vars

\* health is asked after both ids have been posted, one of them with both of its
\* records
HandlerProtocolWitness ==
    /\ op = "handler"
    /\ arg[1].httpMethod = "GET"
    /\ arg[1].endpoint = "health"
    /\ ret[1].body.vectorCount = 2
    /\ idsOf(vectorStore) = { <<"1">>, <<"2">> }
    /\ \E i \in 1..Len(vectorStore) : vectorStore[i].value.record.embedding = <<2, 1>>


----------------------------------------------------------------------------
(* simpleHash on its own: the client copy (DatabaseService.simpleHash) and the *)
(* copy of the vector-store function, against the fold h <- 31 * h + charCode  *)
(* over numbers without a width, kept as their base-65536 digits, lowest first *)

\* simpleHash of netlify/functions/vector-store.js: for (let i = 0; i < str.length; i++)
RECURSIVE simpleHashLoop(_, _, _)
simpleHashLoop(hash, str, i) ==
    IF i > Len(str) THEN hash
    ELSE simpleHashLoop(hashStep(hash, charCodeAt(str[i])), str, i + 1)

simpleHashServerless(str) == toInt32(simpleHashLoop(<<0, 0>>, str, 1))

\* digits * 31 + carry
RECURSIVE times31(_, _)
times31(digits, carry) ==
    IF digits = << >> THEN (IF carry = 0 THEN << >> ELSE <<carry>>)
    ELSE LET d == Head(digits) * 31 + carry
         IN <<d % 65536>> \o times31(Tail(digits), d \div 65536)

\* the fold over the characters, without a width
RECURSIVE unboundedFold(_, _)
unboundedFold(digits, str) ==
    IF str = << >> THEN digits
    ELSE unboundedFold(times31(digits, charCodeAt(Head(str))), Tail(str))

\* a number without a width reduced modulo 2^32 into [-2^31, 2^31 - 1]
reduced(digits) ==
    LET low == IF Len(digits) >= 1 THEN digits[1] ELSE 0
        high == IF Len(digits) >= 2 THEN digits[2] ELSE 0
    IN IF high >= 32768 THEN (high - 65536) * 65536 + low ELSE high * 65536 + low

\* the longest string hashed
MaxHashLen == 7

HashStrings == UNION { [1..n -> {"y", " "}] : n \in 0..MaxHashLen }

SimpleHash(str) ==
    /\ Done([Cur EXCEPT !.ret = <<simpleHash(str), simpleHashServerless(str)>>],
            "simpleHash", <<str>>)
    /\ UNCHANGED <<env, rest>>

NextHash == \E str \in HashStrings : SimpleHash(str)

\* the hash reads nothing of the service: one environment
InitHash == Init /\ creds /\ storeAvailable

SpecHash == InitHash /\ [][NextHash]_vars

\* C39: simpleHash(str) lies in [-2^31, 2^31 - 1], is the fold h <- 31 * h + charCode
\* over numbers without a width reduced modulo 2^32 into that range, and the copy of
\* the vector-store function gives the same number.
SimpleHashIsRollingHash ==
    op = "simpleHash" =>
        /\ ret[1] >= -2147483647 - 1
        /\ ret[1] <= 2147483647
        /\ ret[1] = reduced(unboundedFold(<<0>>, arg[1]))
        /\ ret[2] = ret[1]

\* a string whose fold does not fit 32 bits has been hashed, to a negative number
SimpleHashWitness ==
    /\ op = "simpleHash"
    /\ Len(unboundedFold(<<0>>, arg[1])) > 2
    /\ ret[1] < 0
    /\ ret[2] = ret[1]

====
